---- MODULE Spec2Model ----
\* A model of the macmush client engine (src-tauri/src): the protocol layer
\* (core/connection.rs, network/mccp.rs, network/tcp.rs), the session
\* orchestrator (core/session.rs) and the session lock of the UI shell
\* (ui/state.rs, ui/events.rs, ui/commands.rs).
EXTENDS Integers, Sequences, FiniteSets, TLC

\* ---------------------------------------------------------------- bounds
\* An inbound chunk is the concatenation of 1..MaxFrags fragments.
MaxFrags == 2
\* The peer's compressed stream positions that occur in inbound chunks.
MaxStream == 2
\* Payloads sent through Connection::send_command per compressor.
MaxSends == 2

\* ------------------------------------------------------- telnet constants
IAC == 255
WILL == 251
DO == 253
DONT == 254
SB == 250
SE == 240
TELOPT_COMPRESS2 == 86
TELOPT_COMPRESS3 == 87
\* a text byte ('A') and the line feed that format!("{}\n") appends
TXT == 65
LF == 10

\* ------------------------------------------------------------ zlib codec
\* The zlib stream is stateful: the code of a byte depends on its position
\* in the stream.  Enc(k, b) is the code of plain byte b written as the k-th
\* byte of a stream; ZPART is a piece of a valid stream that carries no
\* complete output yet (stream header, first half of a deflate block).
\* Plain bytes (< 256) are not valid stream content.
ZBASE == 1000
ZPART == ZBASE - 1
Enc(k, b) == ZBASE * k + b

RECURSIVE EncodeFrom(_, _)
EncodeFrom(n, data) ==
    IF data = <<>> THEN <<>>
    ELSE <<Enc(n + 1, Head(data))>> \o EncodeFrom(n + 1, Tail(data))

\* ZlibDecoder::write_all: consumes the bytes in order, fails on the first
\* byte that does not continue the stream.  n is the stream position.
RECURSIVE DecodeRun(_, _, _)
DecodeRun(n, data, out) ==
    IF data = <<>> THEN [ok |-> TRUE, n |-> n, out |-> out]
    ELSE IF Head(data) = ZPART THEN DecodeRun(n, Tail(data), out)
    ELSE IF Head(data) >= ZBASE /\ Head(data) \div ZBASE = n + 1
         THEN DecodeRun(n + 1, Tail(data), Append(out, Head(data) % ZBASE))
    ELSE [ok |-> FALSE, n |-> n, out |-> out]

\* ------------------------------------------------------------- sequences
Range(s) == {s[k] : k \in 1..Len(s)}
Last(s) == s[Len(s)]
\* Vec::drain(a..=b) with 1-based inclusive bounds
Drain(s, a, b) == SubSeq(s, 1, a - 1) \o SubSeq(s, b + 1, Len(s))
Iota(n) == [k \in 1..n |-> k]

\* ----------------------------------------------------------- MccpHandler
NoDecoder == [some |-> FALSE, n |-> 0]
NoEncoder == [some |-> FALSE, out |-> <<>>]

MccpNew ==
    [rx_state |-> "None", tx_state |-> "None",
     decompressor |-> NoDecoder, compressor |-> NoEncoder]

Mccp2WillResponse == <<IAC, DO, TELOPT_COMPRESS2>>
Mccp3WillResponse ==
    <<IAC, DO, TELOPT_COMPRESS3, IAC, SB, TELOPT_COMPRESS3, IAC, SE>>
Mccp2DisableResponse == <<IAC, DONT, TELOPT_COMPRESS2>>

handle_mccp2_will(m) == [m EXCEPT !.rx_state = "Negotiated"]

handle_mccp2_subnegotiation(m) ==
    [m EXCEPT !.rx_state = "Active",
              !.decompressor = [some |-> TRUE, n |-> 0]]

handle_mccp3_will(m) == [m EXCEPT !.tx_state = "Negotiated"]

start_mccp3(m) ==
    [m EXCEPT !.tx_state = "Active",
              !.compressor = [some |-> TRUE, out |-> <<>>]]

is_receiving_compressed(m) == m.rx_state = "Active"
is_sending_compressed(m) == m.tx_state = "Active"

\* mutant: the decoder is dropped but rx_state is left as it was
disable_mccp2_keeps_state(m) == [m EXCEPT !.decompressor = NoDecoder]

disable_mccp2(m) ==
    [m EXCEPT !.rx_state = "None", !.decompressor = NoDecoder]

\* MccpHandler::decompress: [ok, out, m]
decompress(m, compressed_data) ==
    IF m.rx_state # "Active"
    THEN [ok |-> TRUE, out |-> compressed_data, m |-> m]
    ELSE IF ~m.decompressor.some
    THEN [ok |-> FALSE, out |-> <<>>, m |-> m]
    ELSE LET r == DecodeRun(m.decompressor.n, compressed_data, <<>>)
         IN  [ok |-> r.ok, out |-> r.out,
              m |-> [m EXCEPT !.decompressor.n = r.n]]

\* MccpHandler::compress: [ok, out, m].  The encoder's inner Vec is read with
\* get_ref().clone() and is never cleared.
compress(m, data) ==
    IF m.tx_state # "Active"
    THEN [ok |-> TRUE, out |-> data, m |-> m]
    ELSE IF ~m.compressor.some
    THEN [ok |-> FALSE, out |-> <<>>, m |-> m]
    ELSE LET buf == m.compressor.out
                    \o EncodeFrom(Len(m.compressor.out), data)
         IN  [ok |-> TRUE, out |-> buf,
              m |-> [m EXCEPT !.compressor.out = buf]]

\* ------------------------------------------------------ transport writes
\* TcpClient::send.  A write is recorded with the send-compression state it
\* was made in and the path that produced its bytes; the k-th write of an
\* operation fails iff k \in bad (stream.write_all returning an error).
Write(writes, bytes, m, via, bad) ==
    Append(writes, [bytes |-> bytes, tx |-> m.tx_state, via |-> via,
                    ok |-> (Len(writes) + 1) \notin bad])

\* a change of a compression state, in the order the handler makes them
Moved(trans, dir, old, new) ==
    IF old = new THEN trans ELSE Append(trans, <<dir, old, new>>)

\* ------------------------------------------ Connection::process_telnet
\* mutant: off by one, a command that ends the chunk is not seen
HasCommand_short(data, i) == data[i] = IAC /\ i + 3 <= Len(data)

\* `data[i] == IAC && i + 2 < data.len()` with 1-based i
HasCommand(data, i) == data[i] = IAC /\ i + 2 <= Len(data)

\* data[i+3..].windows(2).position(|w| w == [IAC, SE]): the index of the IAC
\* of the first IAC SE at or after `from`, 0 when there is none
FindSE(data, from) ==
    LET hits == {j \in from..(Len(data) - 1) :
                    data[j] = IAC /\ data[j + 1] = SE}
    IN  IF hits = {} THEN 0
        ELSE CHOOSE j \in hits : \A k \in hits : j <= k

\* s = [data, pos, i, m, writes, err, trans, actAt]: data is the chunk being
\* edited in place, pos the original position of each remaining byte, i the
\* scan index, actAt the index from which the remaining bytes followed an
\* activating subnegotiation (0: none).
RECURSIVE process_telnet(_, _)
process_telnet(s, bad) ==
    IF s.err \/ s.i > Len(s.data) THEN s
    ELSE IF HasCommand(s.data, s.i) THEN
        LET command == s.data[s.i + 1]
            option == s.data[s.i + 2]
            se == FindSE(s.data, s.i + 3)
        IN
        IF command = WILL /\ option = TELOPT_COMPRESS2 THEN
            LET m1 == handle_mccp2_will(s.m)
                w == Write(s.writes, Mccp2WillResponse, m1, "raw", bad)
                s1 == [s EXCEPT !.m = m1, !.writes = w,
                         !.trans = Moved(@, "rx", s.m.rx_state, m1.rx_state)]
            IN  IF ~Last(w).ok THEN [s1 EXCEPT !.err = TRUE]
                ELSE process_telnet(
                        [s1 EXCEPT !.data = Drain(@, s.i, s.i + 2),
                                   !.pos = Drain(@, s.i, s.i + 2)], bad)
        ELSE IF command = SB /\ option = TELOPT_COMPRESS2 /\ se # 0 THEN
            LET m1 == handle_mccp2_subnegotiation(s.m)
            IN  process_telnet(
                    [s EXCEPT !.m = m1,
                              !.trans = Moved(@, "rx", s.m.rx_state, m1.rx_state),
                              !.data = Drain(@, s.i, se + 1),
                              !.pos = Drain(@, s.i, se + 1),
                              !.actAt = s.i], bad)
        ELSE IF command = WILL /\ option = TELOPT_COMPRESS3 THEN
            LET m1 == handle_mccp3_will(s.m)
                w == Write(s.writes, Mccp3WillResponse, m1, "raw", bad)
                s1 == [s EXCEPT !.m = m1, !.writes = w,
                         !.trans = Moved(@, "tx", s.m.tx_state, m1.tx_state)]
                m2 == start_mccp3(m1)
            IN  IF ~Last(w).ok THEN [s1 EXCEPT !.err = TRUE]
                ELSE process_telnet(
                        [s1 EXCEPT !.m = m2,
                                   !.trans = Moved(@, "tx", m1.tx_state, m2.tx_state),
                                   !.data = Drain(@, s.i, s.i + 2),
                                   !.pos = Drain(@, s.i, s.i + 2)], bad)
        ELSE process_telnet([s EXCEPT !.i = @ + 1], bad)
    ELSE process_telnet([s EXCEPT !.i = @ + 1], bad)

\* ------------------------------------------------- Connection::receive
\* The part of receive after client.receive() returned Ok(chunk).
\* Result: the handler state, what was returned, and what was done on the way.
receive(m, chunk, bad) ==
    LET active == is_receiving_compressed(m)
        d == decompress(m, chunk)
        failed == active /\ ~d.ok
        \* Ok(decompressed): data is replaced only by a non-empty output
        decoded == active /\ d.ok /\ d.out # <<>>
        m1 == IF failed THEN disable_mccp2(m) ELSE d.m
        w1 == IF failed THEN Write(<<>>, Mccp2DisableResponse, m1, "raw", bad)
              ELSE <<>>
        t1 == Moved(<<>>, "rx", m.rx_state, m1.rx_state)
        data == IF decoded THEN d.out ELSE chunk
        sendErr == failed /\ ~Last(w1).ok
        s0 == [data |-> data, pos |-> Iota(Len(data)), i |-> 1, m |-> m1,
               writes |-> w1, err |-> FALSE, trans |-> t1, actAt |-> 0]
        s == IF sendErr THEN [s0 EXCEPT !.err = TRUE]
             ELSE process_telnet(s0, bad)
    IN  [m |-> s.m,
         ok |-> ~s.err,
         data |-> IF s.err THEN <<>> ELSE s.data,
         pos |-> IF s.err THEN <<>> ELSE s.pos,
         telnetIn |-> data,
         active |-> active,
         decoded |-> decoded,
         decodeFailed |-> failed,
         emptyOut |-> active /\ d.ok /\ d.out = <<>>,
         actAt |-> s.actAt,
         writes |-> s.writes,
         trans |-> s.trans]

\* -------------------------------------------- Connection::send_command
\* format!("{}\n", command).into_bytes()
CommandBytes(command) == command \o <<LF>>

\* [m, ok, writes, payload]: compress when MCCP3 is active, then one write;
\* CommandSent is published only after a successful write.
conn_send_command(m, command, writes, bad) ==
    LET data == CommandBytes(command)
        sending == is_sending_compressed(m)
        c == compress(m, data)
        out == IF sending THEN c.out ELSE data
        m1 == IF sending THEN c.m ELSE m
        w == Write(writes, out, m1, IF sending THEN "compress" ELSE "raw", bad)
    IN  IF sending /\ ~c.ok
        THEN [m |-> m, ok |-> FALSE, writes |-> writes, wrote |-> FALSE]
        ELSE [m |-> m1, ok |-> Last(w).ok, writes |-> w, wrote |-> TRUE]

\* ------------------------------------------------------- inbound chunks
\* What the peer can put into one read: complete negotiation sequences,
\* their pieces (a sequence cut by the read boundary), text, and pieces of
\* the peer's compressed stream.
Fragments ==
    { <<IAC, WILL, TELOPT_COMPRESS2>>,
      <<IAC, SB, TELOPT_COMPRESS2, IAC, SE>>,
      <<IAC, WILL, TELOPT_COMPRESS3>>,
      <<TXT>>, <<IAC>>, <<WILL, TELOPT_COMPRESS2>>,
      <<IAC, SB, TELOPT_COMPRESS2>>, <<IAC, SE>>,
      <<ZPART>> }
    \cup { <<Enc(k, TXT)>> : k \in 1..MaxStream }

RECURSIVE Flatten(_)
Flatten(ss) == IF ss = <<>> THEN <<>> ELSE Head(ss) \o Flatten(Tail(ss))

Chunks ==
    { Flatten(fs) : fs \in UNION { [1..k -> Fragments] : k \in 1..MaxFrags } }

\* the writes of one call that the transport may fail
WriteFailures == { {}, {1}, {2} }
\* the failures that can show in a call that makes up to n writes
FailuresOf(n) == { b \in WriteFailures : b \subseteq 1..n }

\* ----------------------------------------------------------------- state
VARIABLES
    stream,         \* TcpClient.stream is Some
    mccp,           \* Connection.mccp
    telnet_buffer,  \* Connection.telnet_buffer
    op,             \* the Connection call that has run and not yet returned
    sends,          \* payloads compressed by the current compressor
    txWire,         \* bytes send_command wrote since the compressor was made
    txPlain         \* the payloads those bytes stand for

connVars == <<stream, mccp, telnet_buffer, op, sends, txWire, txPlain>>

\* the session orchestrator (core/session.rs)
VARIABLES
    aliases,        \* Session.alias_manager.aliases
    command_queue,  \* Session.world_api.command_queue
    variables,      \* Session.world_api.variables
    history         \* Session.command_history.commands

\* the rules of the session other than aliases, and its clock
VARIABLES
    triggers,       \* Session.trigger_manager.triggers
    highlights,     \* Session.highlight_manager.highlights
    timers,         \* Session.timer_manager.timers
    now,            \* Instant::now()
    stopped         \* Session::stop has run on the session

ruleVars == <<triggers, highlights, timers, now, stopped>>

sessVars == <<aliases, command_queue, variables, history, ruleVars>>

\* the UI shell (ui/state.rs, ui/events.rs, ui/commands.rs)
VARIABLES
    session_lock,     \* the task that holds AppState.session, or Free
    slot,             \* what AppState.session holds
    receiver_running, \* RECEIVER_RUNNING
    pc                \* where the receiver loop and each command task are

\* the chunk the receiver loop has read (ui/events.rs, core/session.rs)
VARIABLES
    in_hand,          \* the write the pump waits for: of a negotiation
                      \* "reply", of a trigger's "command", or "none"
    cut               \* the write during which the timeout ended the pump of
                      \* this iteration, or "none"

pumpVars == <<in_hand, cut>>

\* the data receiver loops (ui/events.rs)
VARIABLES
    unserved,         \* no receiver loop has looked at the stored session yet
    leaving,          \* an earlier loop has yet to store false and end
    twin              \* a loop has been spawned while another was running

rxVars == <<unserved, leaving, twin>>

uiVars == <<session_lock, slot, receiver_running, pc, pumpVars, rxVars>>

\* the event bus (core/events.rs)
VARIABLES
    bus,            \* EventBus.sender: the broadcast channel
    receivers,      \* the broadcast::Receiver handles given out by subscribe
    published       \* every event handed to publish, in call order

busVars == <<bus, receivers, published>>

\* navigation in the command history (automation/command_history.rs)
VARIABLES
    current_position, \* CommandHistory.current_position
    temp_command,     \* CommandHistory.temp_command
    max_size,         \* CommandHistory.max_size
    moves             \* the navigation calls made since the prompt was left

navVars == <<current_position, temp_command, max_size, moves>>

\* the speedwalk configuration of the session (automation/speedwalk.rs)
VARIABLES
    speedwalk         \* Session.speedwalk.config

auxVars == <<busVars, navVars, speedwalk>>

NoOp == [call |-> "none"]

ConnInit ==
    /\ stream = FALSE
    /\ mccp = MccpNew
    /\ telnet_buffer = <<>>
    /\ op = NoOp
    /\ sends = 0
    /\ txWire = <<>>
    /\ txPlain = <<>>

\* the compressor was replaced during the call (start_mccp3)
Restarted(trans) == \E k \in 1..Len(trans) : trans[k] = <<"tx", "Negotiated", "Active">>

\* Connection::connect: TcpClient::connect returns Ok at once when a stream
\* exists; otherwise the attempt succeeds or fails.
Connect ==
    /\ op = NoOp
    /\ \E reachable \in BOOLEAN :
        LET ok == stream \/ reachable
        IN  /\ stream' = ok
            /\ op' = [call |-> "connect", ok |-> ok,
                      events |-> IF ok THEN <<"Connected">>
                                 ELSE <<"ConnectionError">>]
    /\ UNCHANGED <<mccp, telnet_buffer, sends, txWire, txPlain>>
    /\ UNCHANGED <<sessVars, uiVars, auxVars>>

\* Connection::disconnect
Disconnect ==
    /\ op = NoOp
    /\ stream' = FALSE
    /\ op' = [call |-> "disconnect", ok |-> TRUE, events |-> <<"Disconnected">>]
    /\ UNCHANGED <<mccp, telnet_buffer, sends, txWire, txPlain>>
    /\ UNCHANGED <<sessVars, uiVars, auxVars>>

\* Connection::receive, client.receive() returned Ok(chunk)
ReceiveData ==
    /\ op = NoOp
    /\ stream
    /\ \E chunk \in Chunks :
        \E bad \in FailuresOf(Len(receive(mccp, chunk, {}).writes)) :
        LET r == receive(mccp, chunk, bad)
        IN  /\ mccp' = r.m
            /\ op' = [call |-> "receive", kind |-> "data", chunk |-> chunk,
                      ok |-> r.ok, data |-> r.data, pos |-> r.pos,
                      telnetIn |-> r.telnetIn, active |-> r.active,
                      decoded |-> r.decoded, decodeFailed |-> r.decodeFailed,
                      emptyOut |-> r.emptyOut, actAt |-> r.actAt,
                      writes |-> r.writes, trans |-> r.trans,
                      events |-> <<>>]
            /\ IF Restarted(r.trans)
               THEN sends' = 0 /\ txWire' = <<>> /\ txPlain' = <<>>
               ELSE UNCHANGED <<sends, txWire, txPlain>>
    /\ UNCHANGED <<stream, telnet_buffer>>
    /\ UNCHANGED <<sessVars, uiVars, auxVars>>

\* Connection::receive, the read returned 0 bytes (ConnectionClosed)
ReceiveClosed ==
    /\ op = NoOp
    /\ stream
    /\ stream' = FALSE
    /\ op' = [call |-> "receive", kind |-> "closed", ok |-> FALSE,
              events |-> <<"Disconnected">>]
    /\ UNCHANGED <<mccp, telnet_buffer, sends, txWire, txPlain>>
    /\ UNCHANGED <<sessVars, uiVars, auxVars>>

\* Connection::receive, the read failed or there is no stream
ReceiveFailed ==
    /\ op = NoOp
    /\ op' = [call |-> "receive", kind |-> "failed", ok |-> FALSE,
              events |-> <<"ConnectionError">>]
    /\ UNCHANGED <<stream, mccp, telnet_buffer, sends, txWire, txPlain>>
    /\ UNCHANGED <<sessVars, uiVars, auxVars>>

\* Connection::send_command.  With `logged` the bytes written for compressed
\* payloads and the payloads themselves are also kept as a history.
SendCommandOp(logged) ==
    /\ op = NoOp
    /\ is_sending_compressed(mccp) => sends < MaxSends
    /\ \E bad \in FailuresOf(1) :
        LET r == conn_send_command(mccp, <<TXT>>, <<>>,
                                   IF stream THEN bad ELSE {1})
            zipped == is_sending_compressed(mccp)
        IN  /\ mccp' = r.m
            /\ op' = [call |-> "send_command", ok |-> r.ok, writes |-> r.writes,
                      events |-> IF r.ok THEN <<"CommandSent">> ELSE <<>>]
            /\ sends' = IF zipped THEN sends + 1 ELSE sends
            /\ txWire' = IF logged /\ zipped /\ r.ok
                         THEN txWire \o Last(r.writes).bytes ELSE txWire
            /\ txPlain' = IF logged /\ zipped /\ r.ok
                          THEN txPlain \o CommandBytes(<<TXT>>) ELSE txPlain
    /\ UNCHANGED <<stream, telnet_buffer>>
    /\ UNCHANGED <<sessVars, uiVars, auxVars>>

SendCommand == SendCommandOp(FALSE)

SendCommandLogged == SendCommandOp(TRUE)

\* the call returns to its caller, which consumes the result
Return ==
    /\ op # NoOp
    /\ op' = NoOp
    /\ UNCHANGED <<stream, mccp, telnet_buffer, sends, txWire, txPlain>>
    /\ UNCHANGED <<sessVars, uiVars, auxVars>>

ConnNext ==
    \/ Connect
    \/ Disconnect
    \/ ReceiveData
    \/ ReceiveClosed
    \/ ReceiveFailed
    \/ SendCommand
    \/ Return

\* ===================================================== session orchestrator
\* Text is a sequence of characters.
MaxAliases == 2
\* CommandHistory.max_size (DEFAULT_MAX_HISTORY in the code), scaled down
MaxHistory == 2
\* commands a failed script may leave in WorldApi.command_queue
MaxQueue == 2
\* nesting of process_command_internal that is followed
MaxDepth == 3

None == [some |-> FALSE]

Some(v) == [some |-> TRUE, v |-> v]

Digits == <<"0", "1", "2", "3", "4", "5", "6", "7", "8", "9">>

Lower == <<"a", "b", "c", "d", "e", "f", "g", "h", "i", "j", "k", "l", "m",
           "n", "o", "p", "q", "r", "s", "t", "u", "v", "w", "x", "y", "z">>

IndexOf(seq, c) == CHOOSE i \in 1..Len(seq) : seq[i] = c

is_ascii_digit(c) == \E i \in 1..Len(Digits) : Digits[i] = c

\* the byte of a character (digits, space, '%', lower case letters)
ByteOf(c) ==
    IF is_ascii_digit(c) THEN 47 + IndexOf(Digits, c)
    ELSE IF c = " " THEN 32
    ELSE IF c = "%" THEN 37
    ELSE 96 + IndexOf(Lower, c)

\* String::into_bytes
Utf8(text) == [i \in 1..Len(text) |-> ByteOf(text[i])]

T_go == <<"g", "o">>
T_loot == <<"l", "o", "o", "t">>
T_walk == <<"w", "a", "l", "k">>
T_look == <<"l", "o", "o", "k">>
T_2n == <<"2", "n">>
T_get_all == <<"g", "e", "t", " ", "a", "l", "l">>
T_north == <<"n", "o", "r", "t", "h">>

\* -------------------------------------------------- automation/speedwalk.rs
DirPairs ==
    { <<(<<"n">>), T_north>>,
      <<(<<"s">>), <<"s", "o", "u", "t", "h">> >>,
      <<(<<"e">>), <<"e", "a", "s", "t">> >>,
      <<(<<"w">>), <<"w", "e", "s", "t">> >>,
      <<(<<"n", "e">>), <<"n", "o", "r", "t", "h", "e", "a", "s", "t">> >>,
      <<(<<"n", "w">>), <<"n", "o", "r", "t", "h", "w", "e", "s", "t">> >>,
      <<(<<"s", "e">>), <<"s", "o", "u", "t", "h", "e", "a", "s", "t">> >>,
      <<(<<"s", "w">>), <<"s", "o", "u", "t", "h", "w", "e", "s", "t">> >>,
      <<(<<"u">>), <<"u", "p">> >>,
      <<(<<"d">>), <<"d", "o", "w", "n">> >> }

default_direction_map ==
    [k \in { p[1] : p \in DirPairs } |-> (CHOOSE p \in DirPairs : p[1] = k)[2]]

SpeedwalkNew == [enabled |-> TRUE, direction_map |-> default_direction_map]

\* str::split_whitespace
RECURSIVE split_whitespace(_, _, _)
split_whitespace(text, cur, out) ==
    LET closed == IF cur = <<>> THEN out ELSE Append(out, cur)
    IN  IF text = <<>> THEN closed
        ELSE IF Head(text) = " " THEN split_whitespace(Tail(text), <<>>, closed)
        ELSE split_whitespace(Tail(text), Append(cur, Head(text)), out)

\* the number of leading digits
RECURSIVE digit_end(_)
digit_end(token) ==
    IF token = <<>> \/ ~is_ascii_digit(Head(token)) THEN 0
    ELSE 1 + digit_end(Tail(token))

\* str::parse::<usize> of a string of digits
RECURSIVE parse_usize(_, _)
parse_usize(digits, acc) ==
    IF digits = <<>> THEN acc
    ELSE parse_usize(Tail(digits), 10 * acc + (IndexOf(Digits, Head(digits)) - 1))

parse_counted_direction(token) ==
    LET de == digit_end(token)
        count == parse_usize(SubSeq(token, 1, de), 0)
    IN  IF de = 0 \/ de = Len(token) THEN None
        ELSE IF count = 0 \/ count > 1000 THEN None
        ELSE Some([count |-> count,
                   direction |-> SubSeq(token, de + 1, Len(token))])

parse_token(config, token) ==
    LET map == config.direction_map
        cd == parse_counted_direction(token)
    IN  IF \E k \in DOMAIN map : map[k] = token THEN Some(<<token>>)
        ELSE IF token \in DOMAIN map THEN Some(<<map[token]>>)
        ELSE IF cd.some /\ cd.v.direction \in DOMAIN map
        THEN Some([i \in 1..cd.v.count |-> map[cd.v.direction]])
        ELSE None

RECURSIVE Concat(_)
Concat(ss) == IF ss = <<>> THEN <<>> ELSE Head(ss) \o Concat(Tail(ss))

\* try_expand that leaves out the tokens it cannot parse
try_expand_partial(config, command) ==
    LET tokens == split_whitespace(command, <<>>, <<>>)
        parsed == [i \in 1..Len(tokens) |-> parse_token(config, tokens[i])]
        expanded == Concat([i \in 1..Len(tokens) |->
                               IF parsed[i].some THEN parsed[i].v ELSE <<>>])
    IN  IF ~config.enabled \/ expanded = <<>> THEN None ELSE Some(expanded)

try_expand(config, command) ==
    LET tokens == split_whitespace(command, <<>>, <<>>)
        parsed == [i \in 1..Len(tokens) |-> parse_token(config, tokens[i])]
        expanded == Concat([i \in 1..Len(tokens) |-> parsed[i].v])
    IN  IF ~config.enabled THEN None
        ELSE IF tokens = <<>> THEN None
        ELSE IF \E i \in 1..Len(tokens) : ~parsed[i].some THEN None
        ELSE IF expanded = <<>> THEN None
        ELSE Some(expanded)

\* -------------------------------------------- automation/command_history.rs
\* trim().is_empty()
IsBlank(text) == \A i \in 1..Len(text) : text[i] = " "

\* add_command with the check for a repeated command left out
add_command_repeats(commands, command) ==
    IF IsBlank(command) THEN commands
    ELSE LET pushed == Append(commands, command)
         IN  IF Len(pushed) > max_size
             THEN SubSeq(pushed, Len(pushed) - max_size + 1, Len(pushed))
             ELSE pushed

\* CommandHistory::add_command: the commands it leaves
add_command(commands, command) ==
    IF IsBlank(command) THEN commands
    ELSE IF commands # <<>> /\ Last(commands) = command THEN commands
    ELSE LET pushed == Append(commands, command)
         IN  IF Len(pushed) > max_size
             THEN SubSeq(pushed, Len(pushed) - max_size + 1, Len(pushed))
             ELSE pushed

\* ---------------------------------------------------- automation/aliases.rs
\* The patterns in use are ^lit$ and ^lit(.+)$ : [lit, wild].
\* Regex::captures: the groups of the match, group 0 first.
regex_captures(pattern, text) ==
    LET n == Len(pattern.lit)
    IN  IF ~pattern.wild
        THEN IF text = pattern.lit THEN Some(<<text>>) ELSE None
        ELSE IF Len(text) > n /\ SubSeq(text, 1, n) = pattern.lit
        THEN Some(<<text, SubSeq(text, n + 1, Len(text))>>)
        ELSE None

\* Alias::matches
matches(alias, text) == regex_captures(alias.pattern, text).some

\* mutant: the last enabled alias that matches is taken
find_match_last(list, text) ==
    LET hits == { i \in 1..Len(list) : list[i].enabled /\ matches(list[i], text) }
    IN  IF hits = {} THEN 0 ELSE CHOOSE i \in hits : \A j \in hits : i >= j

\* AliasManager::find_match: the index of the first enabled alias that
\* matches, 0 when there is none
find_match(list, text) ==
    LET hits == { i \in 1..Len(list) : list[i].enabled /\ matches(list[i], text) }
    IN  IF hits = {} THEN 0 ELSE CHOOSE i \in hits : \A j \in hits : i <= j

\* str::replace
RECURSIVE Replace(_, _, _)
Replace(text, pat, val) ==
    IF Len(text) < Len(pat) THEN text
    ELSE IF SubSeq(text, 1, Len(pat)) = pat
    THEN val \o Replace(SubSeq(text, Len(pat) + 1, Len(text)), pat, val)
    ELSE <<Head(text)>> \o Replace(Tail(text), pat, val)

\* Alias::expand_wildcards: %0 .. %9 in turn; captures[i + 1] is group i
RECURSIVE expand_from(_, _, _)
expand_from(i, text, captures) ==
    IF i > 9 THEN text
    ELSE expand_from(i + 1,
                     IF i + 1 <= Len(captures)
                     THEN Replace(text, <<"%", Digits[i + 1]>>, captures[i + 1])
                     ELSE text,
                     captures)

expand_wildcards(text, captures) == expand_from(0, text, captures)

\* Alias::execute_action: the commands of an action
RECURSIVE execute_action(_, _)
execute_action(action, captures) ==
    CASE action.kind = "SendCommand" -> <<expand_wildcards(action.cmd, captures)>>
      [] action.kind = "SendCommands" ->
            [i \in 1..Len(action.cmds) |-> expand_wildcards(action.cmds[i], captures)]
      [] action.kind = "ExecuteScript" -> <<>>
      [] action.kind = "Sequence" ->
            Concat([i \in 1..Len(action.actions) |->
                        execute_action(action.actions[i], captures)])

\* Alias::execute
execute(alias, input) ==
    LET caps == regex_captures(alias.pattern, input)
        captures == IF caps.some THEN caps.v ELSE <<>>
    IN  [commands |-> execute_action(alias.action, captures),
         captures |-> captures]

SendCommandAction(cmd) == [kind |-> "SendCommand", cmd |-> cmd]

ExecuteScript(script) == [kind |-> "ExecuteScript", script |-> script]

Sequence(actions) == [kind |-> "Sequence", actions |-> actions]

\* A Lua chunk is what it does: the commands it passes to world.Send and
\* whether it then raises an error.
Script(sent, fails) == [sends |-> sent, fails |-> fails]

Literal(lit) == [lit |-> lit, wild |-> FALSE]

AliasNew(id, pattern, action) ==
    [id |-> id, pattern |-> pattern, action |-> action, enabled |-> TRUE]

\* the aliases a user defines here
AliasPool ==
    { AliasNew("go", Literal(T_go), ExecuteScript(Script(<<T_loot>>, FALSE))),
      AliasNew("go!", Literal(T_go), ExecuteScript(Script(<<T_loot>>, TRUE))),
      AliasNew("loot", Literal(T_loot), SendCommandAction(T_get_all)),
      AliasNew("walk", Literal(T_walk),
               Sequence(<<ExecuteScript(Script(<<T_2n>>, FALSE)),
                          SendCommandAction(T_look)>>)) }

\* further aliases: two for the same line, one of them after a disabled
\* one, and one whose script fails before its command
AliasVariants ==
    { AliasNew("go", Literal(T_go), ExecuteScript(Script(<<T_loot>>, FALSE))),
      AliasNew("go2", Literal(T_go), SendCommandAction(T_look)),
      [AliasNew("off", Literal(T_go), SendCommandAction(T_get_all))
          EXCEPT !.enabled = FALSE],
      AliasNew("walk!", Literal(T_walk),
               Sequence(<<ExecuteScript(Script(<<T_loot>>, TRUE)),
                          SendCommandAction(T_look)>>)) }

\* what the user types
Inputs == { T_go, T_loot, T_walk, T_look, T_2n }

\* ------------------------------------------------------- core/session.rs
\* an event published on the bus
Ev(e, alias, text, commands) ==
    [e |-> e, alias |-> alias, text |-> text, commands |-> commands]

\* the first ExecuteScript of the alias's action (top level of a Sequence)
script_opt(action) ==
    CASE action.kind = "ExecuteScript" -> Some(action.script)
      [] action.kind = "Sequence" ->
            LET at == { i \in 1..Len(action.actions) :
                          action.actions[i].kind = "ExecuteScript" }
            IN  IF at = {} THEN None
                ELSE Some(action.actions[CHOOSE i \in at : \A j \in at : i <= j].script)
      [] OTHER -> None

\* WorldApi::set_variable for each capture (key i is the string of i)
RECURSIVE set_captures(_, _, _)
set_captures(vs, captures, i) ==
    IF i > Len(captures) THEN vs
    ELSE set_captures({ p \in vs : p[1] # Digits[i] } \cup { <<Digits[i], captures[i]>> },
                      captures, i + 1)

\* LuaRuntime::execute: world.Send pushes on the shared queue as it runs
lua_execute(script, queue) ==
    [ok |-> ~script.fails, queue |-> queue \o script.sends]

\* Connection::send_command from the session.  The state of a pipeline call
\* is [list, queue, stale, variables, m, writes, connected, bad, sent,
\* events, steps, pushed, err, over]; stale counts the leading entries of
\* queue that an earlier call left there, steps and pushed record what
\* entered process_command_internal and what scripts queued.
after_send(ss, cmd, r) ==
    [ss EXCEPT !.m = r.m, !.writes = r.writes, !.sent = r.ok,
               !.events = IF r.ok
                          THEN Append(@, Ev("CommandSent", "", cmd, <<>>))
                          ELSE @]

send_from_session(ss, cmd) ==
    after_send(ss, cmd,
               conn_send_command(ss.m, Utf8(cmd), ss.writes,
                                 IF ss.connected THEN ss.bad
                                 ELSE {Len(ss.writes) + 1}))

\* session.rs 194-201: a failed alias command is reported as AliasError
report_failed(ss, cmd, id) ==
    IF ss.sent THEN ss
    ELSE [ss EXCEPT !.events = Append(@, Ev("AliasError", id, cmd, <<>>))]

\* session.rs 193-202: each command of the alias, the loop goes on after a
\* failure
RECURSIVE send_alias_commands(_, _, _)
send_alias_commands(ss, commands, id) ==
    IF commands = <<>> THEN ss
    ELSE send_alias_commands(
             report_failed(send_from_session(ss, Head(commands)),
                           Head(commands), id),
             Tail(commands), id)

\* session.rs 185-203: AliasExecuted and the alias's own commands, reached
\* unless a queued command has returned its error with `?`
alias_commands(ss, alias, input, ex) ==
    IF ss.err \/ ex.commands = <<>> THEN ss
    ELSE send_alias_commands(
             [ss EXCEPT !.events =
                 Append(@, Ev("AliasExecuted", alias.id, input, ex.commands))],
             ex.commands, alias.id)

RECURSIVE process_command_internal(_, _, _, _)
RECURSIVE process_queued(_, _, _, _)
RECURSIVE queued_rest(_, _, _, _)
RECURSIVE script_done(_, _, _, _, _)

\* session.rs 170: `?` ends the loop over the drained commands
queued_rest(ss, cmds, nstale, depth) ==
    IF ss.err THEN ss
    ELSE process_queued(ss, Tail(cmds), IF nstale > 0 THEN nstale - 1 ELSE 0,
                        depth)

\* session.rs 167-171: the drained commands, one by one
process_queued(ss, cmds, nstale, depth) ==
    IF cmds = <<>> THEN ss
    ELSE queued_rest(
             process_command_internal(
                 ss, Head(cmds), IF nstale > 0 THEN "earlier" ELSE "script",
                 depth),
             cmds, nstale, depth)

\* session.rs 162-181: after the script has run; Ok drains the queue and
\* resubmits, Err publishes AliasError and leaves the queue as it is
script_done(ss, input, alias, run, depth) ==
    IF run.ok
    THEN process_queued([ss EXCEPT !.queue = <<>>, !.stale = 0],
                        run.queue, ss.stale, depth + 1)
    ELSE [ss EXCEPT !.queue = run.queue,
                    !.events = Append(@, Ev("AliasError", alias.id, input, <<>>))]

\* session.rs 156-162: the captures become variables, then the script runs
script_run(ss, input, alias, ex, script, depth) ==
    script_done([ss EXCEPT !.variables = set_captures(@, ex.captures, 1),
                           !.pushed = @ \o [i \in 1..Len(script.sends) |->
                                             [cmd |-> script.sends[i],
                                              ok |-> ~script.fails]]],
                input, alias, lua_execute(script, ss.queue), depth)

\* session.rs 146-203: a matched alias
alias_run(ss, input, alias, ex, script, depth) ==
    alias_commands(
        IF script.some THEN script_run(ss, input, alias, ex, script.v, depth)
        ELSE ss,
        alias, input, ex)

\* session.rs 115-153: the alias's data, and AliasMatched
alias_matched(ss, input, alias, depth) ==
    alias_run([ss EXCEPT !.events =
                  Append(@, Ev("AliasMatched", alias.id, input, <<>>))],
              input, alias, execute(alias, input), script_opt(alias.action),
              depth)

\* session.rs 206: no alias matched, `?` on the direct send
direct_send(ss) == [ss EXCEPT !.err = ~ss.sent]

process_command_internal(ss, input, origin, depth) ==
    LET s0 == [ss EXCEPT !.steps = Append(@, [text |-> input, origin |-> origin])]
        idx == find_match(ss.list, input)
    IN  IF depth > MaxDepth THEN [s0 EXCEPT !.over = TRUE, !.err = TRUE]
        ELSE IF idx = 0 THEN direct_send(send_from_session(s0, input))
        ELSE alias_matched(s0, input, ss.list[idx], depth)

\* session.rs 101: `?` ends the loop over the expanded commands
RECURSIVE process_expanded(_, _)
RECURSIVE expanded_rest(_, _)
expanded_rest(ss, cmds) ==
    IF ss.err THEN ss ELSE process_expanded(ss, Tail(cmds))

\* session.rs 98-102: the expanded commands, one by one
process_expanded(ss, cmds) ==
    IF cmds = <<>> THEN ss
    ELSE expanded_rest(process_command_internal(ss, Head(cmds), "speedwalk", 1),
                       cmds)

\* session.rs 94-107, given the result of Speedwalk::try_expand
submit(ss, input, expanded) ==
    IF expanded.some THEN process_expanded(ss, expanded.v)
    ELSE process_command_internal(ss, input, "typed", 1)

\* Session::send_command after the history step
session_send_command(ss, input) ==
    submit(ss, input, try_expand(speedwalk, input))

\* the pipeline state a call starts from
Pipeline(bad) ==
    [list |-> aliases, queue |-> command_queue, stale |-> Len(command_queue),
     variables |-> variables, m |-> mccp, writes |-> <<>>,
     connected |-> stream, bad |-> bad, sent |-> FALSE,
     events |-> <<>>, steps |-> <<>>, pushed |-> <<>>,
     err |-> FALSE, over |-> FALSE]

SessInit ==
    /\ aliases = <<>>
    /\ command_queue = <<>>
    /\ variables = {}
    /\ history = <<>>
    /\ triggers = <<>>
    /\ highlights = <<>>
    /\ timers = <<>>
    /\ now = 0
    /\ stopped = FALSE

\* Session::add_alias
AddAlias ==
    /\ op = NoOp
    /\ Len(aliases) < MaxAliases
    /\ \E a \in AliasPool :
        /\ \A i \in 1..Len(aliases) : aliases[i].id # a.id
        /\ aliases' = Append(aliases, a)
    /\ UNCHANGED <<command_queue, variables, history, ruleVars, connVars, uiVars, auxVars>>

\* Session::add_alias with one of the further aliases
AddAliasVariant ==
    /\ op = NoOp
    /\ Len(aliases) < MaxAliases
    /\ \E a \in AliasVariants :
        /\ \A i \in 1..Len(aliases) : aliases[i].id # a.id
        /\ aliases' = Append(aliases, a)
    /\ UNCHANGED <<command_queue, variables, history, ruleVars, connVars, uiVars, auxVars>>

\* Session::remove_alias
RemoveAlias ==
    /\ op = NoOp
    /\ \E i \in 1..Len(aliases) :
        aliases' = SubSeq(aliases, 1, i - 1) \o SubSeq(aliases, i + 1, Len(aliases))
    /\ UNCHANGED <<command_queue, variables, history, ruleVars, connVars, uiVars, auxVars>>

\* CommandHistory::add_command returns early for a blank or repeated command
is_added(commands, command) ==
    /\ ~IsBlank(command)
    /\ ~(commands # <<>> /\ Last(commands) = command)

\* CommandHistory::add_command: a command that is added ends the navigation
added_position(commands, command, position) ==
    IF is_added(commands, command) THEN None ELSE position

\* what Session::send_command leaves behind and hands to its caller
Submitted(input, r) ==
    /\ Len(r.queue) <= MaxQueue
    /\ history' = add_command(history, input)
    /\ current_position' = added_position(history, input, current_position)
    /\ temp_command' = added_position(history, input, temp_command)
    /\ moves' = IF is_added(history, input) THEN <<>> ELSE moves
    /\ max_size' = max_size
    /\ command_queue' = r.queue
    /\ variables' = r.variables
    /\ mccp' = r.m
    /\ op' = [call |-> "Session::send_command", input |-> input,
              ok |-> ~r.err, events |-> r.events, steps |-> r.steps,
              pushed |-> r.pushed, writes |-> r.writes,
              stale |-> command_queue, left |-> r.queue, over |-> r.over]

\* Session::send_command
SessionSendCommand ==
    /\ op = NoOp
    /\ \E input \in Inputs : \E bad \in WriteFailures :
        Submitted(input, session_send_command(Pipeline(bad), input))
    /\ UNCHANGED <<aliases, ruleVars, stream, telnet_buffer, sends, txWire, txPlain,
                 uiVars, busVars, speedwalk>>

SessNext ==
    \/ Connect
    \/ Disconnect
    \/ AddAlias
    \/ RemoveAlias
    \/ SessionSendCommand
    \/ Return

\* an update that replaces the alias where it stands
update_alias_in_place(list, alias) ==
    [i \in 1..Len(list) |-> IF list[i].id = alias.id THEN alias ELSE list[i]]

\* AliasManager::remove_alias (retain) followed by AliasManager::add_alias
\* (push), as Session::update_alias calls them
update_alias(list, alias) ==
    Append(SelectSeq(list, LAMBDA a : a.id # alias.id), alias)

\* the actions an edit gives an alias
EditedActions == { SendCommandAction(T_look), SendCommandAction(T_get_all) }

\* Session::update_alias with an alias of the session whose action was edited
UpdateAlias ==
    /\ op = NoOp
    /\ \E i \in 1..Len(aliases) : \E action \in EditedActions :
        /\ aliases' = update_alias(aliases, [aliases[i] EXCEPT !.action = action])
        /\ op' = [call |-> "Session::update_alias", id |-> aliases[i].id]
    /\ UNCHANGED <<command_queue, variables, history, ruleVars, stream, mccp,
                   telnet_buffer, sends, txWire, txPlain, uiVars, auxVars>>

\* aliases whose action tree holds two script nodes, a script node inside
\* an inner sequence, and a single script node
ScriptedAliases ==
    { AliasNew("two", Literal(T_go),
               Sequence(<<ExecuteScript(Script(<<T_look>>, FALSE)),
                          ExecuteScript(Script(<<T_get_all>>, FALSE))>>)),
      AliasNew("deep", Literal(T_walk),
               Sequence(<<SendCommandAction(T_look),
                          Sequence(<<ExecuteScript(Script(<<T_get_all>>, FALSE))>>)>>)),
      AliasNew("one", Literal(T_loot), ExecuteScript(Script(<<T_look>>, FALSE))) }

\* Session::add_alias with one of them
AddScriptedAlias ==
    /\ op = NoOp
    /\ Len(aliases) < MaxAliases
    /\ \E a \in ScriptedAliases :
        /\ \A i \in 1..Len(aliases) : aliases[i].id # a.id
        /\ aliases' = Append(aliases, a)
    /\ UNCHANGED <<command_queue, variables, history, ruleVars, connVars, uiVars, auxVars>>

\* the same pipeline over the further aliases
AliasNext ==
    \/ Connect
    \/ Disconnect
    \/ AddAliasVariant
    \/ RemoveAlias
    \/ SessionSendCommand
    \/ Return

\* =========================================================== inbound pump
MaxTriggers == 2
MaxHighlights == 1

\* --------------------------------------------------- automation/triggers.rs
TriggerNew(id, pattern, action) ==
    [id |-> id, pattern |-> pattern, action |-> action, enabled |-> TRUE]

\* TriggerManager::find_matches: the enabled triggers that match, in the
\* order of the Vec (their indices)
find_matches(list, text) ==
    SelectSeq(Iota(Len(list)),
              LAMBDA i : list[i].enabled /\ regex_captures(list[i].pattern, text).some)

\* Trigger::extract_captures: group 0 and the numbered groups
extract_captures(trigger, text) ==
    LET caps == regex_captures(trigger.pattern, text)
    IN  IF caps.some THEN caps.v ELSE <<>>

\* Trigger::execute: the commands of the action, scripts and display
\* actions give none
RECURSIVE trigger_execute(_)
trigger_execute(action) ==
    CASE action.kind = "SendCommand" -> <<action.cmd>>
      [] action.kind = "Sequence" ->
            Concat([i \in 1..Len(action.actions) |->
                        trigger_execute(action.actions[i])])
      [] OTHER -> <<>>

\* the triggers a user defines here
TriggerPool ==
    { TriggerNew("t1", Literal(T_loot),
                 Sequence(<<ExecuteScript(Script(<<T_north>>, FALSE)),
                            SendCommandAction(T_get_all)>>)),
      TriggerNew("t2", [lit |-> <<"l", "o">>, wild |-> TRUE],
                 SendCommandAction(T_look)),
      TriggerNew("t!", Literal(T_loot),
                 Sequence(<<ExecuteScript(Script(<<T_go>>, TRUE)),
                            [kind |-> "DisplayText"]>>)),
      [TriggerNew("toff", Literal(T_loot), SendCommandAction(T_walk))
          EXCEPT !.enabled = FALSE] }

\* ------------------------------------------------- automation/highlights.rs
\* Highlight::find_all_matches for a literal pattern: the spans of its
\* occurrences from position `from` on, left to right, not overlapping
RECURSIVE find_all_matches(_, _, _)
find_all_matches(h, text, from) ==
    IF from + Len(h.lit) - 1 > Len(text) THEN <<>>
    ELSE IF SubSeq(text, from, from + Len(h.lit) - 1) = h.lit
    THEN <<[start |-> from - 1, end |-> from + Len(h.lit) - 1, style |-> h.id]>>
         \o find_all_matches(h, text, from + Len(h.lit))
    ELSE find_all_matches(h, text, from + 1)

\* HighlightManager::get_all_matches: the spans of the enabled highlights,
\* sorted by start
get_all_matches(list, text) ==
    SortSeq(Concat([i \in 1..Len(list) |->
                       IF list[i].enabled
                       THEN find_all_matches(list[i], text, 1) ELSE <<>>]),
            LAMBDA a, b : a.start < b.start)

HighlightPool ==
    { [id |-> "ho", lit |-> <<"o">>, enabled |-> TRUE],
      [id |-> "hk", lit |-> <<"k">>, enabled |-> TRUE] }

\* ------------------------------------ Session::process_incoming_data
\* the lines the server sends
InboundLines == { T_loot, T_look, T_go }

Chars == Range(Lower) \cup Range(Digits) \cup {" ", "%"}

\* String::from_utf8_lossy; "?" is any character outside Chars
from_utf8_lossy(data) ==
    [i \in 1..Len(data) |->
        IF \E c \in Chars : ByteOf(c) = data[i]
        THEN CHOOSE c \in Chars : ByteOf(c) = data[i]
        ELSE "?"]

\* session.rs 518-526: a failed command of the trigger is reported
trigger_failed(ss, cmd, id) ==
    IF ss.sent THEN ss
    ELSE [ss EXCEPT !.events = Append(@, Ev("TriggerError", id, cmd, <<>>))]

\* session.rs 517-528: each command of the trigger
RECURSIVE send_trigger_commands(_, _, _)
send_trigger_commands(ss, commands, id) ==
    IF commands = <<>> THEN ss
    ELSE send_trigger_commands(
             trigger_failed(send_from_session(ss, Head(commands)),
                            Head(commands), id),
             Tail(commands), id)

\* session.rs 505-540: TriggerExecuted and the trigger's own commands,
\* reached unless a queued command has returned its error with `?`
trigger_commands(ss, trigger, text, commands) ==
    IF ss.err \/ commands = <<>> THEN ss
    ELSE send_trigger_commands(
             [ss EXCEPT !.events =
                 Append(@, Ev("TriggerExecuted", trigger.id, text, commands))],
             commands, trigger.id)

\* session.rs 482-502: after the script has run
trigger_script_done(ss, text, trigger, run) ==
    IF run.ok
    THEN process_queued([ss EXCEPT !.queue = <<>>, !.stale = 0],
                        run.queue, ss.stale, 1)
    ELSE [ss EXCEPT !.queue = run.queue,
                    !.events = Append(@, Ev("TriggerError", trigger.id, text, <<>>))]

\* session.rs 475-482: the captures become variables, then the script runs
trigger_script_run(ss, text, trigger, script) ==
    trigger_script_done(
        [ss EXCEPT !.variables = set_captures(@, extract_captures(trigger, text), 1),
                   !.pushed = @ \o [i \in 1..Len(script.sends) |->
                                     [cmd |-> script.sends[i],
                                      ok |-> ~script.fails]]],
        text, trigger, lua_execute(script, ss.queue))

\* session.rs 475-541: one match after its TriggerMatched
trigger_matched(ss, text, trigger, script) ==
    trigger_commands(
        IF script.some THEN trigger_script_run(ss, text, trigger, script.v)
        ELSE ss,
        trigger, text, trigger_execute(trigger.action))

RECURSIVE process_matches(_, _, _, _)
RECURSIVE matches_rest(_, _, _, _)
\* session.rs 490: `?` ends the loop over the matches
matches_rest(ss, list, text, ids) ==
    IF ss.err THEN ss ELSE process_matches(ss, list, text, Tail(ids))

\* session.rs 437-473: the matches in turn, TriggerMatched first.  marks
\* notes where in events and steps a match begins, stale what the queue held
\* before it.
process_matches(ss, list, text, ids) ==
    IF ids = <<>> THEN ss
    ELSE matches_rest(
             trigger_matched(
                 [ss EXCEPT !.marks = Append(@, [id |-> list[Head(ids)].id,
                                                  ev |-> Len(ss.events),
                                                  st |-> Len(ss.steps)]),
                            !.stale = Len(ss.queue),
                            !.events = Append(@, Ev("TriggerMatched",
                                                    list[Head(ids)].id, text, <<>>))],
                 text, list[Head(ids)], script_opt(list[Head(ids)].action)),
             list, text, ids)

\* session.rs 407-424: DataReceived, then HighlightMatched when there are spans
publish_data(ss, text, spans) ==
    [ss EXCEPT !.events =
        Append(@, Ev("DataReceived", "", text, <<>>))
        \o (IF spans = <<>> THEN <<>>
            ELSE <<Ev("HighlightMatched", "", text, spans)>>)]

\* Session::process_incoming_data after connection.receive() returned r
process_incoming_data(ss, r, text) ==
    IF ~r.ok THEN [ss EXCEPT !.m = r.m, !.writes = r.writes, !.err = TRUE]
    ELSE process_matches(
             publish_data([ss EXCEPT !.m = r.m, !.writes = r.writes],
                          text, get_all_matches(highlights, text)),
             triggers, text, find_matches(triggers, text))

\* Session::add_trigger
AddTrigger ==
    /\ op = NoOp
    /\ Len(triggers) < MaxTriggers
    /\ \E t \in TriggerPool :
        /\ \A i \in 1..Len(triggers) : triggers[i].id # t.id
        /\ triggers' = Append(triggers, t)
    /\ UNCHANGED <<aliases, command_queue, variables, history, highlights,
                   timers, now, stopped, connVars, uiVars, auxVars>>

\* Session::add_highlight
AddHighlight ==
    /\ op = NoOp
    /\ Len(highlights) < MaxHighlights
    /\ \E h \in HighlightPool :
        /\ \A i \in 1..Len(highlights) : highlights[i].id # h.id
        /\ highlights' = Append(highlights, h)
    /\ UNCHANGED <<aliases, command_queue, variables, history, triggers,
                   timers, now, stopped, connVars, uiVars, auxVars>>

\* what Session::process_incoming_data leaves behind and hands to its caller
Pumped(line, text, matched, r) ==
    /\ Len(r.queue) <= MaxQueue
    /\ command_queue' = r.queue
    /\ variables' = r.variables
    /\ mccp' = r.m
    /\ op' = [call |-> "Session::process_incoming_data", got |-> "data",
              line |-> line, text |-> text, matched |-> matched,
              ok |-> ~r.err, events |-> r.events, steps |-> r.steps,
              pushed |-> r.pushed, writes |-> r.writes, marks |-> r.marks,
              stale |-> command_queue, left |-> r.queue]

\* Session::process_incoming_data: the read gives a line, or the peer has
\* closed, or the read fails; `?` hands the last two to the caller
ProcessIncomingData ==
    /\ op = NoOp
    /\ \/ /\ stream
          /\ \E line \in InboundLines : \E bad \in WriteFailures :
                Pumped(line,
                       from_utf8_lossy(receive(mccp, Utf8(line), bad).data),
                       find_matches(triggers,
                           from_utf8_lossy(receive(mccp, Utf8(line), bad).data)),
                       process_incoming_data(
                           [marks |-> <<>>] @@ Pipeline(bad),
                           receive(mccp, Utf8(line), bad),
                           from_utf8_lossy(receive(mccp, Utf8(line), bad).data)))
          /\ UNCHANGED stream
       \/ /\ \E got \in {"closed", "failed"} :
                /\ got = "closed" => stream
                /\ stream' = (stream /\ got = "failed")
                /\ op' = [call |-> "Session::process_incoming_data",
                          got |-> got, ok |-> FALSE, events |-> <<>>,
                          steps |-> <<>>, writes |-> <<>>, marks |-> <<>>,
                          matched |-> <<>>]
          /\ UNCHANGED <<command_queue, variables, mccp>>
    /\ UNCHANGED <<aliases, history, triggers, highlights, timers, now, stopped,
                   telnet_buffer, sends, txWire, txPlain, uiVars, auxVars>>

InboundNext ==
    \/ Connect
    \/ AddTrigger
    \/ AddHighlight
    \/ ProcessIncomingData
    \/ Return

\* ============================================================= timer pump
MaxTimers == 2
\* the clock runs from 0 to MaxTime
MaxTime == 3

\* ----------------------------------------------------- automation/timers.rs
\* fires counts the executions since the timer was last started
TimerNew(id, timer_type, interval, action) ==
    [id |-> id, timer_type |-> timer_type, interval |-> interval,
     action |-> action, enabled |-> TRUE, next_fire |-> None,
     has_fired |-> FALSE, fires |-> 0]

\* Timer::start at instant t
start(timer, t) ==
    [timer EXCEPT !.next_fire = Some(t + timer.interval), !.has_fired = FALSE,
                  !.fires = 0]

\* Timer::stop
stop(timer) == [timer EXCEPT !.next_fire = None]

\* mutant: a one-shot timer is rescheduled like a repeating one
reset_reschedules(timer, t) ==
    [timer EXCEPT !.next_fire = Some(t + timer.interval)]

\* Timer::reset at instant t
reset(timer, t) ==
    IF timer.timer_type = "Repeating"
    THEN [timer EXCEPT !.next_fire = Some(t + timer.interval)]
    ELSE [timer EXCEPT !.has_fired = TRUE, !.next_fire = None]

\* Timer::should_fire at instant t
should_fire(timer, t) ==
    IF ~timer.enabled THEN FALSE
    ELSE IF timer.timer_type = "OneShot" /\ timer.has_fired THEN FALSE
    ELSE IF timer.next_fire.some THEN t >= timer.next_fire.v
    ELSE FALSE

\* Timer::execute_action: the commands of an action
RECURSIVE timer_execute_action(_)
timer_execute_action(action) ==
    CASE action.kind = "SendCommand" -> <<action.cmd>>
      [] action.kind = "SendCommands" -> action.cmds
      [] action.kind = "ExecuteScript" -> <<>>
      [] action.kind = "Sequence" ->
            Concat([i \in 1..Len(action.actions) |->
                        timer_execute_action(action.actions[i])])

\* Timer::execute as to the timer: it is reset
timer_execute(timer, t) == [reset(timer, t) EXCEPT !.fires = @ + 1]

\* TimerManager::get_ready_timers: the timers that should fire (indices)
get_ready_timers(list, t) ==
    SelectSeq(Iota(Len(list)), LAMBDA i : should_fire(list[i], t))

\* mutant: the timers are left as they are
stop_all_keeps(list) == list

\* TimerManager::stop_all
stop_all(list) == [i \in 1..Len(list) |-> stop(list[i])]

\* the timers a user defines here
TimerPool ==
    { TimerNew("once", "OneShot", 1, SendCommandAction(T_look)),
      TimerNew("tick", "Repeating", 1,
               Sequence(<<ExecuteScript(Script(<<T_north>>, FALSE)),
                          SendCommandAction(T_get_all)>>)),
      TimerNew("late", "OneShot", 2,
               [kind |-> "SendCommands", cmds |-> <<T_loot, T_go>>]),
      [TimerNew("toff", "Repeating", 1, SendCommandAction(T_walk))
          EXCEPT !.enabled = FALSE] }

\* -------------------------------------------- Session::process_timers
\* session.rs 381-389: a failed command of the timer is reported
timer_failed(ss, cmd, id) ==
    IF ss.sent THEN ss
    ELSE [ss EXCEPT !.events = Append(@, Ev("TimerError", id, cmd, <<>>))]

\* session.rs 380-390: each command of the timer
RECURSIVE send_timer_commands(_, _, _)
send_timer_commands(ss, commands, id) ==
    IF commands = <<>> THEN ss
    ELSE send_timer_commands(
             timer_failed(send_from_session(ss, Head(commands)),
                          Head(commands), id),
             Tail(commands), id)

\* session.rs 370-391: TimerExecuted and the timer's commands, reached
\* unless a queued command has returned its error with `?`
timer_commands(ss, id, commands) ==
    IF ss.err \/ commands = <<>> THEN ss
    ELSE send_timer_commands(
             [ss EXCEPT !.events =
                 Append(@, Ev("TimerExecuted", id, <<>>, commands))],
             commands, id)

\* session.rs 348-367: after the script has run
timer_script_done(ss, id, run) ==
    IF run.ok
    THEN process_queued([ss EXCEPT !.queue = <<>>, !.stale = 0],
                        run.queue, ss.stale, 1)
    ELSE [ss EXCEPT !.queue = run.queue,
                    !.events = Append(@, Ev("TimerError", id, <<>>, <<>>))]

\* session.rs 343-391: one due timer, from the data taken at 317-340
timer_fired(ss, d) ==
    timer_commands(
        IF d.script.some
        THEN timer_script_done(
                 [ss EXCEPT !.pushed = @ \o [i \in 1..Len(d.script.v.sends) |->
                                              [cmd |-> d.script.v.sends[i],
                                               ok |-> ~d.script.v.fails]]],
                 d.id, lua_execute(d.script.v, ss.queue))
        ELSE ss,
        d.id, d.commands)

RECURSIVE process_ready(_, _)
RECURSIVE ready_rest(_, _)
\* session.rs 356: `?` ends the loop over the due timers
ready_rest(ss, data) ==
    IF ss.err THEN ss ELSE process_ready(ss, Tail(data))

\* session.rs 343-392: the due timers in turn.  marks notes where in events
\* and writes the handling of a timer begins.
process_ready(ss, data) ==
    IF data = <<>> THEN ss
    ELSE ready_rest(
             timer_fired([ss EXCEPT !.marks =
                             Append(@, [id |-> Head(data).id, what |-> "handled",
                                        ev |-> Len(ss.events),
                                        wr |-> Len(ss.writes)]),
                                    !.stale = Len(ss.queue)],
                         Head(data)),
             data)

\* session.rs 317-340: for every ready timer the script, and the commands
\* that Timer::execute returns
timer_data(list, ready) ==
    [k \in 1..Len(ready) |->
        [id |-> list[ready[k]].id,
         script |-> script_opt(list[ready[k]].action),
         commands |-> timer_execute_action(list[ready[k]].action)]]

\* session.rs 317-340 as to the timers: every ready timer has been executed,
\* so reset, when the map is collected
timers_executed(list, ready, t) ==
    [i \in 1..Len(list) |->
        IF i \in Range(ready) THEN timer_execute(list[i], t) ELSE list[i]]

\* Session::process_timers at instant t
process_timers(ss, list, t) ==
    process_ready(
        [ss EXCEPT !.marks =
            [k \in 1..Len(get_ready_timers(list, t)) |->
                [id |-> list[get_ready_timers(list, t)[k]].id,
                 what |-> "executed", ev |-> 0, wr |-> 0]]],
        timer_data(list, get_ready_timers(list, t)))

\* Session::add_timer: TimerManager::add_timer starts the timer.  The
\* commands of the UI reach a session only while it is in AppState.
AddTimer ==
    /\ op = NoOp
    /\ ~stopped
    /\ Len(timers) < MaxTimers
    /\ \E t \in TimerPool :
        /\ \A i \in 1..Len(timers) : timers[i].id # t.id
        /\ timers' = Append(timers, start(t, now))
    /\ UNCHANGED <<aliases, command_queue, variables, history, triggers,
                   highlights, now, stopped, connVars, uiVars, auxVars>>

\* Session::update_timer: the timer is removed and added again
UpdateTimer ==
    /\ op = NoOp
    /\ ~stopped
    /\ \E i \in 1..Len(timers) :
        timers' = Append(SubSeq(timers, 1, i - 1)
                             \o SubSeq(timers, i + 1, Len(timers)),
                         start(timers[i], now))
    /\ UNCHANGED <<aliases, command_queue, variables, history, triggers,
                   highlights, now, stopped, connVars, uiVars, auxVars>>

\* time passes
Tick ==
    /\ op = NoOp
    /\ now < MaxTime
    /\ now' = now + 1
    /\ UNCHANGED <<aliases, command_queue, variables, history, triggers,
                   highlights, timers, stopped, connVars, uiVars, auxVars>>

\* what Session::process_timers leaves behind and hands to its caller
TimersPumped(ready, r) ==
    /\ Len(r.queue) <= MaxQueue
    /\ timers' = timers_executed(timers, ready, now)
    /\ command_queue' = r.queue
    /\ mccp' = r.m
    /\ op' = [call |-> "Session::process_timers", ready |-> ready,
              before |-> timers, stopped |-> stopped,
              ok |-> ~r.err, events |-> r.events, steps |-> r.steps,
              pushed |-> r.pushed, writes |-> r.writes, marks |-> r.marks,
              stale |-> command_queue, left |-> r.queue]

\* Session::process_timers
ProcessTimers ==
    /\ op = NoOp
    /\ \E bad \in WriteFailures :
        TimersPumped(get_ready_timers(timers, now),
                     process_timers([marks |-> <<>>] @@ Pipeline(bad),
                                    timers, now))
    /\ UNCHANGED <<aliases, variables, history, triggers, highlights, now,
                   stopped, stream, telnet_buffer, sends, txWire, txPlain,
                   uiVars, auxVars>>

\* Session::stop, called by the disconnect command on the session it has
\* taken out of AppState: the timers are stopped, then Connection::disconnect
SessionStop ==
    /\ op = NoOp
    /\ ~stopped
    /\ timers' = stop_all(timers)
    /\ stopped' = TRUE
    /\ stream' = FALSE
    /\ op' = [call |-> "Session::stop", ok |-> TRUE, events |-> <<"Disconnected">>]
    /\ UNCHANGED <<aliases, command_queue, variables, history, triggers,
                   highlights, now, mccp, telnet_buffer, sends, txWire, txPlain,
                   uiVars, auxVars>>

TimerNext ==
    \/ Connect
    \/ AddTimer
    \/ UpdateTimer
    \/ Tick
    \/ ProcessTimers
    \/ SessionStop
    \/ Return

\* ================================================================ UI shell
\* command tasks that the front end runs at the same time
MaxTasks == 2

Free == <<"free", 0>>

RX == <<"rx", 0>>

UiTasks == { <<"ui", i>> : i \in 1..MaxTasks }

\* tokio::sync::Mutex: lock().await completes only when no task holds it
lock_available_always(holder) == TRUE

lock_available(holder) == holder = Free

\* AppState::is_connected, given what the slot holds
is_connected(s) == s = "Connected"

Goto(t, loc) == pc' = [pc EXCEPT ![t] = loc]

UiInit ==
    /\ session_lock = Free
    /\ slot = "None"
    /\ receiver_running = FALSE
    /\ pc = [t \in UiTasks \cup {RX} |-> IF t = RX THEN "stopped" ELSE "idle"]
    /\ in_hand = "none"
    /\ cut = "none"
    /\ unserved = FALSE
    /\ leaving = FALSE
    /\ twin = FALSE

\* ---- ui/events.rs start_data_receiver, the spawned loop
\* events.rs 74-78: state.is_connected() locks, looks and unlocks
RxCheck ==
    /\ pc[RX] = "check"
    /\ lock_available(session_lock)
    /\ IF is_connected(slot)
       THEN Goto(RX, "pump_wait") /\ unserved' = FALSE
       ELSE Goto(RX, "stop") /\ UNCHANGED unserved
    /\ cut' = "none"
    /\ UNCHANGED <<session_lock, slot, receiver_running, leaving, twin, in_hand,
                   connVars, sessVars, auxVars>>

\* events.rs 76-77, 111-112: RECEIVER_RUNNING.store(false) and break, after
\* the loop has found no connection or the pump has returned an error
RxStop ==
    /\ pc[RX] = "stop"
    /\ receiver_running' = FALSE
    /\ Goto(RX, "stopped")
    /\ UNCHANGED <<session_lock, slot, connVars, sessVars, auxVars, pumpVars,
                   rxVars>>

\* the same two lines in a loop that a newer loop has replaced
RxLateStop ==
    /\ leaving
    /\ leaving' = FALSE
    /\ receiver_running' = FALSE
    /\ UNCHANGED <<session_lock, slot, pc, unserved, twin, connVars, sessVars, auxVars,
                   pumpVars>>

\* events.rs 81-93: inside the 100 ms timeout the lock is taken; with no
\* session the flag is cleared under the lock and the loop is about to end,
\* otherwise process_incoming_data starts
RxPumpLock ==
    /\ pc[RX] = "pump_wait"
    /\ lock_available(session_lock)
    /\ IF slot = "None"
       THEN /\ Goto(RX, "stop")
            /\ receiver_running' = FALSE
            /\ UNCHANGED <<session_lock, unserved>>
       ELSE /\ Goto(RX, "pump")
            /\ session_lock' = RX
            /\ unserved' = FALSE
            /\ UNCHANGED receiver_running
    /\ UNCHANGED <<slot, leaving, twin, connVars, sessVars, auxVars, pumpVars>>

\* the writes a chunk can ask for: Connection::receive answers a negotiation
\* (connection.rs 142-147) before DataReceived is published, the triggers'
\* commands are written after it (session.rs 484-540)
PumpWrites == {"reply", "command"}

\* connection.receive() has read a chunk and the pump waits in write_all
\* (tcp.rs 136), the lock still held
RxPumpRead ==
    /\ pc[RX] = "pump"
    /\ slot = "Connected"
    /\ \E w \in PumpWrites : in_hand' = w
    /\ Goto(RX, "pump_write")
    /\ UNCHANGED <<session_lock, slot, receiver_running, cut, connVars, sessVars,
                   auxVars, rxVars>>

\* process_incoming_data returns; an error ends the loop (events.rs 96-113)
RxPumpDone ==
    /\ pc[RX] \in {"pump", "pump_write"}
    /\ session_lock' = Free
    /\ in_hand' = "none"
    /\ \E result \in {"ok", "closed", "failed"} :
        /\ result = "ok" => slot = "Connected"
        /\ result = "closed" => pc[RX] = "pump"
        /\ slot' = IF result = "closed" THEN "Closed" ELSE slot
        /\ Goto(RX, IF result = "ok" THEN "timer_wait" ELSE "stop")
    /\ UNCHANGED <<receiver_running, cut, connVars, sessVars, auxVars, rxVars>>

\* mutant: the pump is left to end by itself
cancelled_never(at) == FALSE

\* events.rs 80-91, 114-118: the timeout is around the lock and the whole of
\* process_incoming_data, it ends the future wherever it waits
cancelled(at) == at \in {"pump_wait", "pump", "pump_write"}

\* events.rs 114-118: the timeout drops the future, and with it the guard,
\* whether it was waiting for the lock or inside the pump
RxPumpTimeout ==
    /\ cancelled(pc[RX])
    /\ session_lock' = IF pc[RX] = "pump_wait" THEN session_lock ELSE Free
    /\ cut' = IF pc[RX] = "pump_write" THEN in_hand ELSE cut
    /\ in_hand' = "none"
    /\ Goto(RX, "timer_wait")
    /\ UNCHANGED <<slot, receiver_running, connVars, sessVars, auxVars, rxVars>>

\* events.rs 122-129: the lock is taken inside the 50 ms timeout; with no
\* session the step is Ok(()) at once
RxTimerLock ==
    /\ pc[RX] = "timer_wait"
    /\ lock_available(session_lock)
    /\ IF slot = "None"
       THEN Goto(RX, "check") /\ UNCHANGED <<session_lock, unserved>>
       ELSE Goto(RX, "timers") /\ session_lock' = RX /\ unserved' = FALSE
    /\ UNCHANGED <<slot, receiver_running, leaving, twin, connVars, sessVars, auxVars,
                   pumpVars>>

\* process_timers returns, with Ok or Err the loop goes on (events.rs 131-133)
RxTimerDone ==
    /\ pc[RX] = "timers"
    /\ session_lock' = Free
    /\ Goto(RX, "check")
    /\ UNCHANGED <<slot, receiver_running, connVars, sessVars, auxVars, pumpVars, rxVars>>

RxTimerTimeout ==
    /\ pc[RX] \in {"timer_wait", "timers"}
    /\ session_lock' = IF pc[RX] = "timers" THEN Free ELSE session_lock
    /\ Goto(RX, "check")
    /\ UNCHANGED <<slot, receiver_running, connVars, sessVars, auxVars, pumpVars, rxVars>>

\* ---- ui/commands.rs: the front end invokes a command
UiInvoke(t) ==
    /\ pc[t] = "idle"
    /\ \E c \in {"send_wait", "connect_check", "disconnect_wait"} : Goto(t, c)
    /\ UNCHANGED <<session_lock, slot, receiver_running, connVars, sessVars, auxVars, pumpVars, rxVars>>

\* commands.rs 156-166: send_command takes the lock; with no session it
\* returns at once, otherwise Session::send_command starts
UiSendLock(t) ==
    /\ pc[t] = "send_wait"
    /\ lock_available(session_lock)
    /\ IF slot = "None"
       THEN Goto(t, "idle") /\ UNCHANGED session_lock
       ELSE Goto(t, "send") /\ session_lock' = t
    /\ UNCHANGED <<slot, receiver_running, connVars, sessVars, auxVars, pumpVars, rxVars>>

\* Session::send_command returns and the guard is dropped
UiSendDone(t) ==
    /\ pc[t] = "send"
    /\ session_lock' = Free
    /\ Goto(t, "idle")
    /\ UNCHANGED <<slot, receiver_running, connVars, sessVars, auxVars, pumpVars, rxVars>>

\* commands.rs 67-70: connect_to_world refuses when connected
UiConnectCheck(t) ==
    /\ pc[t] = "connect_check"
    /\ lock_available(session_lock)
    /\ Goto(t, IF is_connected(slot) THEN "idle" ELSE "connect_start")
    /\ UNCHANGED <<session_lock, slot, receiver_running, connVars, sessVars, auxVars, pumpVars, rxVars>>

\* commands.rs 73-93: a new session is built and started, not yet shared
UiConnectStart(t) ==
    /\ pc[t] = "connect_start"
    /\ \E ok \in BOOLEAN : Goto(t, IF ok THEN "connect_store" ELSE "idle")
    /\ UNCHANGED <<session_lock, slot, receiver_running, connVars, sessVars, auxVars, pumpVars, rxVars>>

\* commands.rs 98: *state.session.lock().await = Some(session)
UiConnectStore(t) ==
    /\ pc[t] = "connect_store"
    /\ lock_available(session_lock)
    /\ slot' = "Connected"
    /\ unserved' = TRUE
    /\ Goto(t, "connect_spawn")
    /\ UNCHANGED <<session_lock, receiver_running, leaving, twin, connVars, sessVars,
                   auxVars, pumpVars>>

\* events.rs 64-67: start_data_receiver returns without spawning when the
\* flag was set
skipped(flag) == flag

\* commands.rs 102 and events.rs 62-72: RECEIVER_RUNNING.swap(true); the
\* loop is spawned only when the flag was false.  A loop spawned while the
\* one before it is about to end leaves that one behind; of two loops that
\* run side by side, pc follows the older one.
UiStartReceiver(t) ==
    /\ pc[t] = "connect_spawn"
    /\ receiver_running' = TRUE
    /\ pc' = [pc EXCEPT ![t] = "idle",
                        ![RX] = IF skipped(receiver_running)
                                   \/ @ \notin {"stop", "stopped"}
                                THEN @ ELSE "check"]
    /\ leaving' = (leaving \/ (~skipped(receiver_running) /\ pc[RX] = "stop"))
    /\ twin' = (twin \/ (~skipped(receiver_running)
                            /\ pc[RX] \notin {"stop", "stopped"}))
    /\ UNCHANGED <<session_lock, slot, unserved, connVars, sessVars, auxVars,
                   pumpVars>>

\* commands.rs 121-123: disconnect takes the lock and takes the session out
UiDisconnectLock(t) ==
    /\ pc[t] = "disconnect_wait"
    /\ lock_available(session_lock)
    /\ session_lock' = t
    /\ slot' = "None"
    /\ unserved' = FALSE
    /\ Goto(t, IF slot = "None" THEN "disconnect_none" ELSE "disconnect_stop")
    /\ UNCHANGED <<receiver_running, leaving, twin, connVars, sessVars, auxVars,
                   pumpVars>>

\* commands.rs 125-146: Session::stop on the session taken out (or the
\* "Not connected" error), then the guard is dropped
UiDisconnectDone(t) ==
    /\ pc[t] \in {"disconnect_none", "disconnect_stop"}
    /\ session_lock' = Free
    /\ Goto(t, "idle")
    /\ UNCHANGED <<slot, receiver_running, connVars, sessVars, auxVars, pumpVars, rxVars>>

UiNext ==
    \/ RxCheck
    \/ RxStop
    \/ RxLateStop
    \/ RxPumpLock
    \/ RxPumpRead
    \/ RxPumpDone
    \/ RxPumpTimeout
    \/ RxTimerLock
    \/ RxTimerDone
    \/ RxTimerTimeout
    \/ \E t \in UiTasks : UiInvoke(t)
    \/ \E t \in UiTasks : UiSendLock(t)
    \/ \E t \in UiTasks : UiSendDone(t)
    \/ \E t \in UiTasks : UiConnectCheck(t)
    \/ \E t \in UiTasks : UiConnectStart(t)
    \/ \E t \in UiTasks : UiConnectStore(t)
    \/ \E t \in UiTasks : UiStartReceiver(t)
    \/ \E t \in UiTasks : UiDisconnectLock(t)
    \/ \E t \in UiTasks : UiDisconnectDone(t)

\* ================================================== patterns and matchers
\* automation/triggers.rs: a rule keeps its pattern and, once it has been
\* matched, the Regex compiled from it. (The session sections above use
\* rules whose patterns compile and are never edited, and match by the
\* pattern.) Aliases and highlights have the same fields and the same
\* compile and matches.
\* edits of one rule's pattern that are followed
MaxEdits == 2

\* "(" : a pattern Regex::new rejects
BadSyntax == Literal(<<"(">>)

\* "(lo+)+" : a pattern validate_pattern flags as unsafe
Nested == Literal(<<"(", "l", "o", "+", ")", "+">>)

\* the patterns a user types when creating or editing a rule
TypedPatterns ==
    { Literal(T_loot), [lit |-> <<"l", "o">>, wild |-> TRUE], BadSyntax, Nested }

\* the patterns found in the rule files of the world
StoredPatterns ==
    { Literal(T_loot), [lit |-> <<"l", "o">>, wild |-> TRUE], BadSyntax }

\* str::contains
Contains(text, part) ==
    \E i \in 1..(Len(text) - Len(part) + 1) :
        SubSeq(text, i, i + Len(part) - 1) = part

\* Regex::new: the compiled matcher, which keeps the pattern it was made
\* from, or an error
regex_new(pattern) == IF pattern = BadSyntax THEN None ELSE Some(pattern)

\* Trigger::validate_pattern: nested quantifiers, then a trial compilation
validate_pattern(pattern) ==
    /\ ~Contains(pattern.lit, <<")", "+">>)
    /\ ~Contains(pattern.lit, <<")", "*">>)
    /\ regex_new(pattern).some

\* serde_json::from_str::<Trigger>: the stored fields, no matcher
\* (#[serde(skip)] regex). edits counts the edits of the pattern, loaded
\* tells where the rule came from and was keeps the matcher the rule had
\* when its pattern was last edited.
from_str(id, pattern, edits, loaded) ==
    [id |-> id, pattern |-> pattern, enabled |-> TRUE, regex |-> None,
     edits |-> edits, loaded |-> loaded, was |-> None]

\* Trigger::new after validate_pattern
trigger_new(id, pattern) == from_str(id, pattern, 0, FALSE)

\* an edit made on the rule the session holds, matcher and all
edited_in_place(trigger, pattern) ==
    [trigger EXCEPT !.pattern = pattern, !.edits = @ + 1]

\* update_trigger (ui/commands.rs): the rule is read from its file, so it
\* has no matcher, and gets the new pattern
edited(trigger, pattern) ==
    from_str(trigger.id, pattern, trigger.edits + 1, trigger.loaded)

\* Trigger::compile: nothing to do when a matcher is cached
compile(trigger) ==
    IF trigger.regex.some THEN [t |-> trigger, ok |-> TRUE]
    ELSE IF regex_new(trigger.pattern).some
    THEN [t |-> [trigger EXCEPT !.regex = regex_new(trigger.pattern)], ok |-> TRUE]
    ELSE [t |-> trigger, ok |-> FALSE]

\* Trigger::matches, given the result of compile: is_match of the cached
\* matcher
matches_compiled(c, text) ==
    [t |-> c.t, ok |-> c.ok,
     hit |-> c.ok /\ regex_captures(c.t.regex.v, text).some]

trigger_matches(trigger, text) == matches_compiled(compile(trigger), text)

\* TriggerManager::find_matches over rules that compile on first use: the
\* first pattern error ends the call (`?`)
RECURSIVE find_matches_from(_, _, _, _)
find_matches_from(list, text, i, ids) ==
    IF i > Len(list) THEN [list |-> list, ok |-> TRUE, ids |-> ids]
    ELSE IF ~list[i].enabled THEN find_matches_from(list, text, i + 1, ids)
    ELSE IF ~trigger_matches(list[i], text).ok
    THEN [list |-> list, ok |-> FALSE, ids |-> <<>>]
    ELSE find_matches_from([list EXCEPT ![i] = trigger_matches(list[i], text).t],
                           text, i + 1,
                           IF trigger_matches(list[i], text).hit
                           THEN Append(ids, list[i].id) ELSE ids)

RuleIds == {"t1", "t2"}

Without(list, id) == SelectSeq(list, LAMBDA t : t.id # id)

\* create_trigger (ui/commands.rs): Trigger::new, then Session::add_trigger;
\* a pattern error is returned and nothing is added
CreateTrigger ==
    /\ op = NoOp
    /\ Len(triggers) < MaxTriggers
    /\ \E id \in RuleIds : \E pattern \in TypedPatterns :
        /\ \A i \in 1..Len(triggers) : triggers[i].id # id
        /\ triggers' = IF validate_pattern(pattern)
                       THEN Append(triggers, trigger_new(id, pattern))
                       ELSE triggers
        /\ op' = [call |-> "create_trigger", pattern |-> pattern,
                  ok |-> validate_pattern(pattern)]
    /\ UNCHANGED <<aliases, command_queue, variables, history, highlights,
                   timers, now, stopped, stream, mccp, telnet_buffer, sends,
                   txWire, txPlain, uiVars, auxVars>>

\* load_automation_into_session: every rule file that parses is added
LoadTrigger ==
    /\ op = NoOp
    /\ Len(triggers) < MaxTriggers
    /\ \E id \in RuleIds : \E pattern \in StoredPatterns :
        /\ \A i \in 1..Len(triggers) : triggers[i].id # id
        /\ triggers' = Append(triggers, from_str(id, pattern, 0, TRUE))
    /\ UNCHANGED <<aliases, command_queue, variables, history, highlights,
                   timers, now, stopped, connVars, uiVars, auxVars>>

\* update_trigger (ui/commands.rs) with a new pattern: validate_pattern,
\* then Session::update_trigger removes the old rule and adds the edited one
UpdateTriggerPattern ==
    /\ op = NoOp
    /\ \E i \in 1..Len(triggers) : \E pattern \in TypedPatterns :
        /\ triggers[i].edits < MaxEdits
        /\ triggers' = IF validate_pattern(pattern)
                       THEN Append(Without(triggers, triggers[i].id),
                                   [edited(triggers[i], pattern)
                                       EXCEPT !.was = triggers[i].regex])
                       ELSE triggers
        /\ op' = [call |-> "update_trigger", pattern |-> pattern,
                  ok |-> validate_pattern(pattern)]
    /\ UNCHANGED <<aliases, command_queue, variables, history, highlights,
                   timers, now, stopped, stream, mccp, telnet_buffer, sends,
                   txWire, txPlain, uiVars, auxVars>>

Matched(text, r) ==
    /\ triggers' = r.list
    /\ op' = [call |-> "TriggerManager::find_matches", text |-> text,
              ok |-> r.ok, ids |-> r.ids, before |-> triggers]

\* TriggerManager::find_matches on a line of the server
FindMatches ==
    /\ op = NoOp
    /\ \E text \in InboundLines :
        Matched(text, find_matches_from(triggers, text, 1, <<>>))
    /\ UNCHANGED <<aliases, command_queue, variables, history, highlights,
                   timers, now, stopped, stream, mccp, telnet_buffer, sends,
                   txWire, txPlain, uiVars, auxVars>>

RuleNext ==
    \/ CreateTrigger
    \/ LoadTrigger
    \/ UpdateTriggerPattern
    \/ FindMatches
    \/ Return

\* ========================================================= command history
\* automation/command_history.rs, reached through Session::send_command and
\* Session::get_previous_command / get_next_command
\* navigation calls that are followed before the prompt is reached again
MaxMoves == 4

\* what the user submits: a speedwalk, an alias, and lines that are empty
\* or blank
HistoryLines == { T_2n, T_go, <<>>, <<" ", " ">> }

\* the aliases in use here: one whose script queues a command, and one
\* that the queued command matches
HistoryAliases == { a \in AliasPool : a.id \in {"go", "loot"} }

\* the text in the input field when the user presses up
CurrentInputs == { None, Some(T_walk), Some(T_look) }

\* VecDeque::get
get(commands, index) ==
    IF index < Len(commands) THEN Some(commands[index + 1]) ELSE None

\* CommandHistory::get_previous
get_previous(commands, position, temp, current_input) ==
    IF commands = <<>>
    THEN [position |-> position, temp |-> temp, result |-> None]
    ELSE [position |-> Some(IF ~position.some THEN Len(commands) - 1
                            ELSE IF position.v = 0 THEN 0
                            ELSE position.v - 1),
          temp |-> IF position.some THEN temp ELSE current_input,
          result |-> get(commands, IF ~position.some THEN Len(commands) - 1
                                   ELSE IF position.v = 0 THEN 0
                                   ELSE position.v - 1)]

\* a get_next that forgets the saved input at the end of the history
get_next_forgets(commands, position, temp) ==
    IF ~position.some
    THEN [position |-> position, temp |-> temp, result |-> None]
    ELSE IF position.v >= Len(commands) - 1
    THEN [position |-> None, temp |-> None, result |-> None]
    ELSE [position |-> Some(position.v + 1), temp |-> temp,
          result |-> get(commands, position.v + 1)]

\* CommandHistory::get_next
get_next(commands, position, temp) ==
    IF ~position.some
    THEN [position |-> position, temp |-> temp, result |-> None]
    ELSE IF position.v >= Len(commands) - 1
    THEN [position |-> None, temp |-> None, result |-> temp]
    ELSE [position |-> Some(position.v + 1), temp |-> temp,
          result |-> get(commands, position.v + 1)]

\* get_next: `self.commands.len() - 1` on an empty deque (usize)
sub_overflows(commands, position) == position.some /\ commands = <<>>

\* get_next where len() - 1 has wrapped to usize::MAX: the position is below
\* it, so the call moves forward
get_next_wrapped(commands, position, temp) ==
    [position |-> Some(position.v + 1), temp |-> temp,
     result |-> get(commands, position.v + 1)]

\* VecDeque::pop_front while len() > max_size
trim(commands, size) ==
    IF Len(commands) > size
    THEN SubSeq(commands, Len(commands) - size + 1, Len(commands))
    ELSE commands

NavInit ==
    /\ current_position = None
    /\ temp_command = None
    /\ max_size = MaxHistory
    /\ moves = <<>>

\* Session::add_alias
AddHistoryAlias ==
    /\ op = NoOp
    /\ Len(aliases) < MaxAliases
    /\ \E a \in HistoryAliases :
        /\ \A i \in 1..Len(aliases) : aliases[i].id # a.id
        /\ aliases' = Append(aliases, a)
    /\ UNCHANGED <<command_queue, variables, history, ruleVars, connVars, uiVars,
                   auxVars>>

\* Session::send_command on what the user submits
SessionSendLine ==
    /\ op = NoOp
    /\ \E input \in HistoryLines : \E bad \in WriteFailures :
        Submitted(input, session_send_command(Pipeline(bad), input))
    /\ UNCHANGED <<aliases, ruleVars, stream, telnet_buffer, sends, txWire, txPlain,
                 uiVars, busVars, speedwalk>>

Navigated(call, input, r) ==
    /\ current_position' = r.position
    /\ temp_command' = r.temp
    /\ max_size' = max_size
    /\ moves' = IF r.position.some
                THEN Append(moves, [call |-> call, input |-> input])
                ELSE <<>>
    /\ op' = [call |-> call, input |-> input, result |-> r.result,
              moves |-> Append(moves, [call |-> call, input |-> input]),
              commands |-> history]

\* Session::get_previous_command
GetPrevious ==
    /\ op = NoOp
    /\ Len(moves) < MaxMoves
    /\ \E input \in CurrentInputs :
        Navigated("CommandHistory::get_previous", input,
                  get_previous(history, current_position, temp_command, input))
    /\ UNCHANGED <<aliases, command_queue, variables, history, ruleVars, stream,
                   mccp, telnet_buffer, sends, txWire, txPlain, uiVars, busVars, speedwalk>>

\* Session::get_next_command.  With a position and no commands the
\* subtraction len() - 1 overflows: the build with overflow checks panics,
\* the build without them wraps.
GetNext ==
    /\ op = NoOp
    /\ Len(moves) < MaxMoves
    /\ IF sub_overflows(history, current_position)
       THEN \/ Navigated("CommandHistory::get_next", None,
                         get_next_wrapped(history, current_position, temp_command))
            \/ /\ op' = [call |-> "CommandHistory::get_next", panicked |-> TRUE]
               /\ UNCHANGED navVars
       ELSE Navigated("CommandHistory::get_next", None,
                      get_next(history, current_position, temp_command))
    /\ UNCHANGED <<aliases, command_queue, variables, history, ruleVars, stream,
                   mccp, telnet_buffer, sends, txWire, txPlain, uiVars, busVars, speedwalk>>

\* Session::reset_command_history_position
ResetPosition ==
    /\ op = NoOp
    /\ current_position # None
    /\ current_position' = None
    /\ temp_command' = None
    /\ moves' = <<>>
    /\ UNCHANGED <<max_size, sessVars, connVars, uiVars, busVars, speedwalk>>

\* Session::clear_command_history
ClearHistory ==
    /\ op = NoOp
    /\ history # <<>>
    /\ history' = <<>>
    /\ current_position' = None
    /\ temp_command' = None
    /\ moves' = <<>>
    /\ UNCHANGED <<max_size, aliases, command_queue, variables, ruleVars, connVars,
                   uiVars, busVars, speedwalk>>

\* Session::set_command_history_max_size: the position is left as it is
SetMaxSize ==
    /\ op = NoOp
    /\ \E size \in 0..MaxHistory :
        /\ max_size' = size
        /\ history' = trim(history, size)
    /\ UNCHANGED <<current_position, temp_command, moves>>
    /\ UNCHANGED <<aliases, command_queue, variables, ruleVars, connVars, uiVars,
                   busVars, speedwalk>>

HistoryNext ==
    \/ Connect
    \/ AddHistoryAlias
    \/ SessionSendLine
    \/ GetPrevious
    \/ GetNext
    \/ ResetPosition
    \/ ClearHistory
    \/ Return

\* =============================================================== speedwalk
\* what the user types at a prompt that walks
WalkLines ==
    { T_2n, T_north, T_look, <<"n">>, <<" ">>,
      <<"0", "n">>, <<"1", "0", "0", "1", "n">>, <<"2", "x">>,
      <<"2", "n", "o", "r", "t", "h">>,
      <<"2", "n", " ", "u">>, <<"2", "n", " ", "l", "o", "o", "k">> }

\* Session::new
WalkInit == speedwalk = SpeedwalkNew

\* Session::set_speedwalk_enabled
SetSpeedwalkEnabled ==
    /\ op = NoOp
    /\ \E enabled \in BOOLEAN :
        speedwalk' = [speedwalk EXCEPT !.enabled = enabled]
    /\ UNCHANGED <<connVars, sessVars, uiVars, busVars, navVars>>

\* Session::send_command on a line that may be a walk
SessionSendWalk ==
    /\ op = NoOp
    /\ \E input \in WalkLines : \E bad \in WriteFailures :
        Submitted(input, session_send_command(Pipeline(bad), input))
    /\ UNCHANGED <<aliases, ruleVars, stream, telnet_buffer, sends, txWire, txPlain,
                 uiVars, busVars, speedwalk>>

WalkNext ==
    \/ Connect
    \/ SetSpeedwalkEnabled
    \/ SessionSendWalk
    \/ Return

\* ============================================================ placeholders
\* lo(.+) : a line that starts with "lo", the rest is group 1
LoRest == [lit |-> <<"l", "o">>, wild |-> TRUE]

\* "get %1 %2": group 1 is captured, group 2 is not
T_get_1_2 == <<"g", "e", "t", " ", "%", "1", " ", "%", "2">>

\* "%0"
T_whole == <<"%", "0">>

SendCommandsAction(cmds) == [kind |-> "SendCommands", cmds |-> cmds]

\* the aliases with placeholders in their commands
PlaceholderAliases ==
    { AliasNew("take", LoRest, SendCommandAction(T_get_1_2)),
      AliasNew("echo", LoRest,
               Sequence(<<SendCommandsAction(<<T_whole, T_get_1_2>>),
                          SendCommandAction(T_look)>>)) }

\* the triggers with placeholders in their commands
PlaceholderTriggers ==
    { TriggerNew("grab", LoRest, SendCommandAction(T_get_1_2)),
      TriggerNew("note", LoRest,
                 Sequence(<<SendCommandAction(T_whole),
                            SendCommandAction(T_look)>>)) }

\* Session::add_alias
AddPlaceholderAlias ==
    /\ op = NoOp
    /\ Len(aliases) < MaxAliases
    /\ \E a \in PlaceholderAliases :
        /\ \A i \in 1..Len(aliases) : aliases[i].id # a.id
        /\ aliases' = Append(aliases, a)
    /\ UNCHANGED <<command_queue, variables, history, ruleVars, connVars, uiVars,
                   auxVars>>

\* Session::add_trigger
AddPlaceholderTrigger ==
    /\ op = NoOp
    /\ Len(triggers) < MaxTriggers
    /\ \E t \in PlaceholderTriggers :
        /\ \A i \in 1..Len(triggers) : triggers[i].id # t.id
        /\ triggers' = Append(triggers, t)
    /\ UNCHANGED <<aliases, command_queue, variables, history, highlights,
                   timers, now, stopped, connVars, uiVars, auxVars>>

PlaceholderNext ==
    \/ Connect
    \/ AddPlaceholderAlias
    \/ AddPlaceholderTrigger
    \/ SessionSendCommand
    \/ ProcessIncomingData
    \/ Return

\* ================================================================== storms
\* aliases whose scripts send what an alias matches: "again" sends its own
\* line, "ping" and "pong" send each other's
StormAliases ==
    { AliasNew("again", Literal(T_go), ExecuteScript(Script(<<T_go>>, FALSE))),
      AliasNew("ping", Literal(T_look), ExecuteScript(Script(<<T_walk>>, FALSE))),
      AliasNew("pong", Literal(T_walk), ExecuteScript(Script(<<T_look>>, FALSE))) }

\* Session::add_alias
AddStormAlias ==
    /\ op = NoOp
    /\ Len(aliases) < MaxAliases
    /\ \E a \in StormAliases :
        /\ \A i \in 1..Len(aliases) : aliases[i].id # a.id
        /\ aliases' = Append(aliases, a)
    /\ UNCHANGED <<command_queue, variables, history, ruleVars, connVars, uiVars,
                   auxVars>>

StormNext ==
    \/ Connect
    \/ AddStormAlias
    \/ SessionSendCommand
    \/ Return

\* ================================================================ event bus
\* core/events.rs; EventBus wraps a tokio::sync::broadcast channel
\* calls to publish that are followed
MaxPublished == 4
\* receivers handed out by subscribe
MaxSubscribers == 2
\* the capacity the channel is created with: EVENT_BUFFER_SIZE (100) in the
\* code, scaled down
BufferSize == 2

BusEvents == {"Connected", "DataReceived"}

\* EventBus::new: broadcast::channel(EVENT_BUFFER_SIZE), whose own receiver
\* is dropped at once. tail counts the values stored so far; slots holds the
\* retained ones, oldest first, each with the number of the publish call
\* that brought it.
EventBusNew == [tail |-> 0, slots |-> <<>>]

\* EventBus::subscriber_count
subscriber_count(rs) ==
    Cardinality({ i \in 1..Len(rs) : rs[i].alive })

\* broadcast::Sender::send: an error when no receiver is alive; otherwise
\* the value is stored, in the place of the oldest one once the channel
\* holds its capacity
send(b, rx_cnt, value) ==
    IF rx_cnt = 0 THEN [bus |-> b, ok |-> FALSE]
    ELSE [bus |-> [tail |-> b.tail + 1,
                   slots |-> IF Len(b.slots) = BufferSize
                             THEN Append(Tail(b.slots), value)
                             ELSE Append(b.slots, value)],
          ok |-> TRUE]

\* a publish that hands the result of send to its caller
publish_propagates(b, rx_cnt, value) == send(b, rx_cnt, value)

\* EventBus::publish: `let _ = self.sender.send(event); Ok(())`
publish(b, rx_cnt, value) ==
    [bus |-> send(b, rx_cnt, value).bus, ok |-> TRUE]

\* a subscribe whose receiver starts at the oldest retained value
subscribe_replays(b, n) ==
    [alive |-> TRUE, next |-> b.tail - Len(b.slots), at |-> n,
     got |-> <<>>, lost |-> 0]

\* EventBus::subscribe: the receiver starts at the tail of the channel.
\* at, got and lost keep what the subscriber has seen: the number of publish
\* calls before it subscribed, the calls whose events it received, and the
\* count of events reported as missed.
subscribe(b, n) ==
    [alive |-> TRUE, next |-> b.tail, at |-> n, got |-> <<>>, lost |-> 0]

\* broadcast::Receiver::recv with a value or a lag to report: a receiver
\* whose next value was overwritten gets Lagged(missed) and goes on from the
\* oldest retained value
recv(b, r) ==
    LET head == b.tail - Len(b.slots)
    IN  IF r.next < head
        THEN [rx |-> [r EXCEPT !.next = head, !.lost = @ + (head - r.next)],
              res |-> "Lagged", v |-> head - r.next]
        ELSE [rx |-> [r EXCEPT !.next = @ + 1,
                               !.got = Append(@, b.slots[r.next - head + 1].n)],
              res |-> "Ok", v |-> b.slots[r.next - head + 1].n]

BusInit ==
    /\ bus = EventBusNew
    /\ receivers = <<>>
    /\ published = <<>>

\* EventBus::subscribe
BusSubscribe ==
    /\ op = NoOp
    /\ Len(receivers) < MaxSubscribers
    /\ receivers' = Append(receivers, subscribe(bus, Len(published)))
    /\ UNCHANGED <<bus, published, connVars, sessVars, uiVars, navVars, speedwalk>>

\* a receiver is dropped
BusDrop ==
    /\ op = NoOp
    /\ \E i \in 1..Len(receivers) :
        /\ receivers[i].alive
        /\ receivers' = [receivers EXCEPT ![i].alive = FALSE]
    /\ UNCHANGED <<bus, published, connVars, sessVars, uiVars, navVars, speedwalk>>

Published(event, r) ==
    /\ bus' = r.bus
    /\ published' = Append(published, event)
    /\ op' = [call |-> "EventBus::publish", event |-> event, ok |-> r.ok,
              subscribers |-> subscriber_count(receivers)]

\* EventBus::publish
BusPublish ==
    /\ op = NoOp
    /\ Len(published) < MaxPublished
    /\ \E event \in BusEvents :
        Published(event, publish(bus, subscriber_count(receivers),
                                 [e |-> event, n |-> Len(published) + 1]))
    /\ UNCHANGED <<receivers, stream, mccp, telnet_buffer, sends, txWire, txPlain,
                   sessVars, uiVars,
                   navVars, speedwalk>>

Received(i, r) ==
    /\ receivers' = [receivers EXCEPT ![i] = r.rx]
    /\ op' = [call |-> "Receiver::recv", rx |-> i, res |-> r.res, v |-> r.v,
              before |-> receivers[i], tail |-> bus.tail]

\* rx.recv().await completes: a value or a lag is there for the receiver
BusRecv ==
    /\ op = NoOp
    /\ \E i \in 1..Len(receivers) :
        /\ receivers[i].alive
        /\ receivers[i].next < bus.tail
        /\ Received(i, recv(bus, receivers[i]))
    /\ UNCHANGED <<bus, published, stream, mccp, telnet_buffer, sends, txWire,
                   txPlain, sessVars, uiVars,
                   navVars, speedwalk>>

\* ------------------------------------------------------------ ui/events.rs
\* start_event_forwarder, spawned by connect_to_world.  The forwarders are
\* the receivers of the bus here; what a forwarder received it has emitted
\* to the frontend.
ForwardUnchanged ==
    UNCHANGED <<stream, mccp, telnet_buffer, sends, txWire, txPlain, sessVars,
                session_lock, receiver_running, pc, pumpVars, rxVars, navVars,
                speedwalk>>

Publish(event) ==
    Published(event, publish(bus, subscriber_count(receivers),
                             [e |-> event, n |-> Len(published) + 1]))

\* connect_to_world: refused while a connected session is stored; otherwise
\* Session::start publishes Connected or ConnectionError, and after a
\* connect that succeeded the session is stored and a forwarder is spawned,
\* which subscribes
ConnectToWorld ==
    /\ op = NoOp
    /\ ~is_connected(slot)
    /\ Len(published) < MaxPublished
    /\ Len(receivers) < MaxSubscribers
    /\ \E ok \in BOOLEAN :
        IF ok
        THEN /\ Publish("Connected")
             /\ slot' = "Connected"
             /\ receivers' = Append(receivers, subscribe(bus', Len(published')))
        ELSE /\ Publish("ConnectionError")
             /\ UNCHANGED <<slot, receivers>>
    /\ ForwardUnchanged

\* disconnect: the stored session is taken and stopped
DisconnectWorld ==
    /\ op = NoOp
    /\ slot # "None"
    /\ Len(published) < MaxPublished
    /\ Publish("Disconnected")
    /\ slot' = "None"
    /\ UNCHANGED receivers
    /\ ForwardUnchanged

\* the receiver loop pumps the connected session: data, or the peer's close
PumpPublishes ==
    /\ op = NoOp
    /\ slot = "Connected"
    /\ Len(published) < MaxPublished
    /\ \/ Publish("DataReceived") /\ UNCHANGED slot
       \/ Publish("Disconnected") /\ slot' = "Closed"
    /\ UNCHANGED receivers
    /\ ForwardUnchanged

\* a forwarder's `while let Ok(event) = rx.recv().await`: an event is
\* emitted to the frontend; Lagged ends the loop and drops the receiver
ForwarderRecv ==
    /\ op = NoOp
    /\ \E i \in 1..Len(receivers) :
        /\ receivers[i].alive
        /\ receivers[i].next < bus.tail
        /\ LET r == recv(bus, receivers[i])
           IN  Received(i, [r EXCEPT !.rx.alive = (r.res = "Ok")])
    /\ UNCHANGED <<bus, published, slot>>
    /\ ForwardUnchanged

ForwardNext ==
    \/ ConnectToWorld
    \/ DisconnectWorld
    \/ PumpPublishes
    \/ ForwarderRecv
    \/ Return

BusNext ==
    \/ BusSubscribe
    \/ BusDrop
    \/ BusPublish
    \/ BusRecv
    \/ Return

\* ========================================================== specifications
vars == <<connVars, sessVars, uiVars, auxVars>>

Init == ConnInit /\ SessInit /\ UiInit /\ BusInit /\ NavInit /\ WalkInit

\* the protocol layer
SpecConn == Init /\ [][ConnNext]_vars

\* the send direction with the history of what was written
TxNext ==
    \/ Connect
    \/ ReceiveData
    \/ SendCommandLogged
    \/ Return

SpecTx == Init /\ [][TxNext]_vars

\* the outbound pipeline of the session
SpecSession == Init /\ [][SessNext]_vars

\* alias selection and failing alias scripts
SpecAliases == Init /\ [][AliasNext]_vars

\* the aliases of a session that the user edits
AliasEditNext ==
    \/ AddAliasVariant
    \/ RemoveAlias
    \/ UpdateAlias
    \/ Return

SpecAliasEdit == Init /\ [][AliasEditNext]_vars

\* the event forwarders over connects and disconnects
SpecForward == Init /\ [][ForwardNext]_vars

\* the pipeline over aliases with several or nested script nodes
ScriptedNext ==
    \/ Connect
    \/ AddScriptedAlias
    \/ SessionSendCommand
    \/ Return

SpecScripted == Init /\ [][ScriptedNext]_vars

\* the inbound pump: highlights and triggers
SpecInbound == Init /\ [][InboundNext]_vars

\* the timer pump
SpecTimers == Init /\ [][TimerNext]_vars

\* the tasks that share the session
SpecUi == Init /\ [][UiNext]_vars

\* the timeouts of the receiver loop expire, a command that holds the session
\* returns, and the session mutex serves its waiters in turn (tokio's Mutex
\* is fair), so a waiting send_command is not passed over for ever
UiFair ==
    /\ WF_vars(RxPumpTimeout \/ RxTimerTimeout)
    /\ WF_vars(\E t \in UiTasks : UiSendDone(t) \/ UiDisconnectDone(t))
    /\ \A t \in UiTasks : SF_vars(UiSendLock(t))

\* the same tasks under a fair scheduler
SpecUiFair == Init /\ [][UiNext]_vars /\ UiFair

\* rules created, loaded, edited and matched
SpecRules == Init /\ [][RuleNext]_vars

\* the command history: what is recorded and how it is walked
SpecHistory == Init /\ [][HistoryNext]_vars

\* the command history with a maximum size that the user changes
SizedNext ==
    \/ SessionSendLine
    \/ GetPrevious
    \/ GetNext
    \/ ResetPosition
    \/ ClearHistory
    \/ SetMaxSize
    \/ Return

SpecSized == Init /\ [][SizedNext]_vars

\* speedwalk expansion of what the user types
SpecSpeedwalk == Init /\ [][WalkNext]_vars

\* rules whose commands carry placeholders
SpecPlaceholders == Init /\ [][PlaceholderNext]_vars

\* aliases whose scripts feed the pipeline that runs them
SpecStorm == Init /\ [][StormNext]_vars

\* the event bus and its subscribers
SpecBus == Init /\ [][BusNext]_vars


\* ================================================== protocol layer claims
ReceivedData == op.call = "receive" /\ op.kind = "data"

CycleMoves ==
    { <<d, "None", "Negotiated">> : d \in {"rx", "tx"} }
    \cup { <<d, "Negotiated", "Active">> : d \in {"rx", "tx"} }
    \cup { <<d, "Active", "None">> : d \in {"rx", "tx"} }

\* C4: in each direction the compression state only moves
\* None -> Negotiated -> Active -> None; every change of rx_state or tx_state
\* made while a chunk is processed is one of these three moves.
C4_StateCycle ==
    ReceivedData => \A k \in 1..Len(op.trans) : op.trans[k] \in CycleMoves

C6_PartialHeldBack ==
    (/\ ReceivedData /\ op.ok
     /\ Len(op.telnetIn) >= 1
     /\ Last(op.telnetIn) = IAC
     /\ (Len(op.telnetIn) = 1 \/ op.telnetIn[Len(op.telnetIn) - 1] # IAC))
    => Len(op.telnetIn) \notin Range(op.pos)

\* the last index of the complete compression negotiation sequence that
\* starts at p, 0 when none starts there
NegotiationEnd(data, p) ==
    IF data[p] # IAC \/ p + 2 > Len(data) THEN 0
    ELSE IF data[p + 1] = WILL
            /\ data[p + 2] \in {TELOPT_COMPRESS2, TELOPT_COMPRESS3}
    THEN p + 2
    ELSE IF data[p + 1] = SB /\ data[p + 2] = TELOPT_COMPRESS2
            /\ FindSE(data, p + 3) # 0
    THEN FindSE(data, p + 3) + 1
    ELSE 0

\* C7: no byte of a compression negotiation sequence that sits complete in a
\* chunk (IAC WILL 86, IAC SB 86 ... IAC SE, IAC WILL 87) is among the bytes
\* receive returns, wherever in the chunk the sequence starts; the returned
\* bytes are the remaining bytes, in order.
C7_NoNegotiationBytes ==
    (ReceivedData /\ op.ok) =>
        /\ \A p \in 1..Len(op.telnetIn) :
              NegotiationEnd(op.telnetIn, p) # 0 =>
                 \A q \in p..NegotiationEnd(op.telnetIn, p) :
                    q \notin Range(op.pos)
        /\ Len(op.data) = Len(op.pos)
        /\ \A k \in 1..Len(op.data) : op.data[k] = op.telnetIn[op.pos[k]]

C7_Witness ==
    /\ ReceivedData /\ op.ok /\ op.data # <<>>
    /\ \E p \in 2..Len(op.telnetIn) :
          /\ NegotiationEnd(op.telnetIn, p) = Len(op.telnetIn)
          /\ op.pos = Iota(p - 1)

\* C8: once receive compression is Active, every byte received after the
\* activating subnegotiation reaches the text pipeline only as decompressor
\* output: receive never returns bytes of the compressed stream as they came.
C8_OnlyDecodedAfterActive ==
    (ReceivedData /\ op.ok) =>
        /\ ~(op.emptyOut /\ op.data # <<>>)
        /\ ~(~op.decoded /\ op.actAt # 0 /\ op.actAt <= Len(op.data))

\* C9: while send compression is Active every write to the transport went
\* through the compressor.
C9_AlwaysCompressed ==
    (ReceivedData \/ op.call = "send_command") =>
        \A k \in 1..Len(op.writes) :
            op.writes[k].tx = "Active" => op.writes[k].via = "compress"

\* C10: decompressing, in order, the bytes send_command wrote while send
\* compression is Active yields the concatenation of the payloads.
C10_RoundTrip ==
    LET r == DecodeRun(0, txWire, <<>>)
    IN  r.ok /\ r.out = txPlain

\* ================================================= outbound pipeline claims
Submission == op.call = "Session::send_command"

\* an alias's effects for the text it matched: AliasMatched, then (when it
\* has commands) AliasExecuted and a write attempt for each command
Fired(alias, text) ==
    LET cmds == execute(alias, text).commands
    IN  \E j \in 1..Len(op.events) :
          /\ op.events[j] = Ev("AliasMatched", alias.id, text, <<>>)
          /\ cmds # <<>> =>
                /\ \E k \in (j + 1)..Len(op.events) :
                      op.events[k] = Ev("AliasExecuted", alias.id, text, cmds)
                /\ \A c \in Range(cmds) :
                      \E w \in 1..Len(op.writes) :
                          op.writes[w].bytes = CommandBytes(Utf8(c))

\* C2: when an alias's script queues a command that matches a second
\* alias, the second alias's AliasMatched, AliasExecuted and command sends
\* have all happened when the send_command call that ran the script
\* returns, and no send_command call fires an alias for a command that a
\* script queued during an earlier call.
C2_RecursiveAliasCompletes ==
    Submission =>
        /\ \A i \in 1..Len(op.pushed) :
              (op.pushed[i].ok /\ find_match(aliases, op.pushed[i].cmd) # 0)
                  => Fired(aliases[find_match(aliases, op.pushed[i].cmd)],
                           op.pushed[i].cmd)
        /\ \A i \in 1..Len(op.steps) :
              op.steps[i].origin = "earlier"
                  => find_match(aliases, op.steps[i].text) = 0

\* Speedwalk expansion as step 2 of the pipeline applies it
Step2(text) ==
    LET expanded == try_expand(SpeedwalkNew, text)
    IN  IF expanded.some THEN expanded.v ELSE <<text>>

\* C3: every command queued by a script has had speedwalk expansion applied
\* before it reaches alias matching: what enters alias matching on behalf
\* of a script is never a command that step 2 would have rewritten.
C3_QueuedCommandsExpanded ==
    Submission =>
        \A i \in 1..Len(op.steps) :
            op.steps[i].origin \in {"script", "earlier"}
                => Step2(op.steps[i].text) = <<op.steps[i].text>>

\* the aliases, by position, that are enabled and match the text
Candidates(text) ==
    { i \in 1..Len(aliases) :
        aliases[i].enabled /\ regex_captures(aliases[i].pattern, text).some }

AliasMatchedAt(j) == op.events[j].e = "AliasMatched"

\* C11: the alias that fires for a line is the first enabled alias, in
\* insertion order, whose pattern matches it; a line that enters alias
\* matching fires at most one alias, and an alias inserted later that also
\* matches does not fire.
C11_FirstMatchOnly ==
    Submission =>
        /\ \A j \in 1..Len(op.events) :
              AliasMatchedAt(j) =>
                 \E i \in Candidates(op.events[j].text) :
                    /\ aliases[i].id = op.events[j].alias
                    /\ \A k \in Candidates(op.events[j].text) : i <= k
        /\ Cardinality({ j \in 1..Len(op.events) : AliasMatchedAt(j) })
              <= Len(op.steps)

\* two enabled aliases match the line and only the first one has fired
C11_Witness ==
    /\ Submission
    /\ Len(op.steps) = 1
    /\ Cardinality(Candidates(op.input)) = 2
    /\ \E j \in 1..Len(op.events) :
          /\ AliasMatchedAt(j)
          /\ op.events[j].text = op.input
          /\ \E i \in Candidates(op.input) :
                /\ aliases[i].id = op.events[j].alias
                /\ \A k \in Candidates(op.input) : i <= k
    /\ Cardinality({ j \in 1..Len(op.events) : AliasMatchedAt(j) }) = 1

\* the alias of the session with this id
AliasOf(id) == aliases[CHOOSE i \in 1..Len(aliases) : aliases[i].id = id]

ScriptFails(action) == script_opt(action).some /\ script_opt(action).v.fails

\* C15: when the script of an alias fails, AliasError is published and
\* sending is skipped for that alias: none of its commands is written to
\* the transport.
C15_FailedScriptSendsNothing ==
    Submission =>
        \A j \in 1..Len(op.events) :
            (AliasMatchedAt(j) /\ ScriptFails(AliasOf(op.events[j].alias).action))
            => /\ \E k \in (j + 1)..Len(op.events) :
                     op.events[k] = Ev("AliasError", op.events[j].alias,
                                       op.events[j].text, <<>>)
               /\ \A w \in 1..Len(op.writes) :
                     \A c \in Range(execute(AliasOf(op.events[j].alias),
                                            op.events[j].text).commands) :
                        ~(/\ op.writes[w].ok
                          /\ op.writes[w].bytes = CommandBytes(Utf8(c)))

\* a typed line that fires an alias: every send of the call is made while
\* that alias (or one its script's commands fire) is executed
AliasExecution ==
    /\ Submission /\ ~op.over
    /\ op.steps[1].origin = "typed"
    /\ Candidates(op.input) # {}

\* C16: a command that fails to be sent while an alias is executed, one of
\* its own or one that its script queued, is reported as an AliasError
\* event, and the remaining commands and the rest of the pipeline still
\* run: the call is not cut short.
C16_SendFailureReportedAndSkipped ==
    AliasExecution =>
        /\ op.ok
        /\ \A w \in 1..Len(op.writes) :
              ~op.writes[w].ok =>
                 \E j \in 1..Len(op.events) :
                    /\ op.events[j].e = "AliasError"
                    /\ CommandBytes(Utf8(op.events[j].text)) = op.writes[w].bytes

\* C17: once connected, send_command never hands a failure back to its
\* caller as an error result (and neither do process_incoming_data and
\* process_timers): failures are events on the bus only.
C17_NoErrorResult ==
    (Submission /\ stream /\ ~op.over) => op.ok

\* ================================================== inbound pipeline claims
Pump == op.call = "Session::process_incoming_data" /\ op.got = "data"

\* the triggers, by position, that are enabled and match the text
EnabledMatching(text) ==
    { i \in 1..Len(triggers) :
        triggers[i].enabled /\ regex_captures(triggers[i].pattern, text).some }

\* the trigger's TriggerMatched was published and, when it has commands of
\* its own, its TriggerExecuted
Executed(trigger, text) ==
    /\ \E j \in 1..Len(op.events) :
          /\ op.events[j].e = "TriggerMatched"
          /\ op.events[j].alias = trigger.id
          /\ op.events[j].text = text
    /\ trigger_execute(trigger.action) # <<>> =>
          \E j \in 1..Len(op.events) :
             /\ op.events[j].e = "TriggerExecuted"
             /\ op.events[j].alias = trigger.id
             /\ op.events[j].commands = trigger_execute(trigger.action)

\* C12: for an inbound text find_matches returns every enabled trigger
\* whose pattern matches, in insertion order, and the inbound pipeline
\* executes each of them: no match is skipped because of an earlier one.
C12_EveryMatchExecuted ==
    Pump =>
        /\ Range(op.matched) = EnabledMatching(op.text)
        /\ \A a, b \in 1..Len(op.matched) :
              a < b => op.matched[a] < op.matched[b]
        /\ \A k \in 1..Len(op.matched) :
              Executed(triggers[op.matched[k]], op.text)

\* what was published, and what entered the outbound pipeline, while the
\* k-th match was handled: from its TriggerMatched up to the next one
MatchEvents(k) ==
    SubSeq(op.events, op.marks[k].ev + 1,
           IF k < Len(op.marks) THEN op.marks[k + 1].ev ELSE Len(op.events))

MatchSteps(k) ==
    SubSeq(op.steps, op.marks[k].st + 1,
           IF k < Len(op.marks) THEN op.marks[k + 1].st ELSE Len(op.steps))

\* the steps of one match in the claimed order, for the trigger's script
\* (or none) and its own commands
InOrder(id, evs, sts, script, own) ==
    /\ evs[1].e = "TriggerMatched" /\ evs[1].alias = id
    /\ [i \in 1..Len(sts) |-> sts[i].text]
          = (IF script.some /\ ~script.v.fails THEN script.v.sends ELSE <<>>)
    /\ IF own = <<>>
       THEN \A j \in 2..Len(evs) : evs[j].e \in {"CommandSent", "TriggerError"}
       ELSE \E j \in 2..Len(evs) :
              /\ evs[j].e = "TriggerExecuted" /\ evs[j].alias = id
              /\ evs[j].commands = own
              /\ Len(evs) - j = Len(own)
              /\ \A i \in 2..Len(evs) :
                    i # j => evs[i].e \in {"CommandSent", "TriggerError"}

\* C13: the matches of a chunk are handled one after another in match
\* order; for each, TriggerMatched comes first, then the script runs and
\* the commands it queued go through the outbound pipeline, then
\* TriggerExecuted is published and the trigger's own commands are sent,
\* all before the next match's TriggerMatched.
C13_MatchStepsInOrder ==
    Pump =>
        /\ \A k \in 1..Len(op.marks) :
              op.marks[k].id = triggers[op.matched[k]].id
        /\ \A k \in 1..Len(op.marks) :
              InOrder(op.marks[k].id, MatchEvents(k), MatchSteps(k),
                      script_opt(triggers[op.matched[k]].action),
                      trigger_execute(triggers[op.matched[k]].action))

\* C14: for a chunk with at least one highlight span, HighlightMatched is
\* published before DataReceived.
C14_HighlightBeforeData ==
    Pump =>
        \A i, j \in 1..Len(op.events) :
            (op.events[i].e = "HighlightMatched" /\ op.events[j].e = "DataReceived")
                => i < j

\* ======================================================= timer pump claims
TimerPump == op.call = "Session::process_timers"

\* the place of a timer among the due timers of the pump
ReadyPos(id) ==
    CHOOSE k \in 1..Len(op.ready) : op.before[op.ready[k]].id = id

\* C18: in one pump the due timers are handled strictly one at a time:
\* a due timer is executed (and so rescheduled or retired) only after the
\* handling of every due timer before it (script, events, commands) has
\* begun and ended.
C18_OneTimerAtATime ==
    TimerPump =>
        \A i, j \in 1..Len(op.marks) :
            (/\ op.marks[i].what = "handled"
             /\ op.marks[j].what = "executed"
             /\ ReadyPos(op.marks[i].id) < ReadyPos(op.marks[j].id))
            => i < j

\* C19: a OneShot timer fires at most once per activation; once it has
\* fired it is not ready again, now or at any later instant, until it is
\* started again.
C19_OneShotFiresOnce ==
    \A i \in 1..Len(timers) :
        timers[i].timer_type = "OneShot" =>
            /\ timers[i].fires <= 1
            /\ timers[i].fires = 1 =>
                  \A t \in now..MaxTime : ~should_fire(timers[i], t)

\* a pump in which another timer fires while an enabled OneShot timer that
\* has fired before stays quiet
C19_Witness ==
    /\ TimerPump
    /\ op.ready # <<>>
    /\ \E i \in 1..Len(op.before) :
          /\ op.before[i].timer_type = "OneShot"
          /\ op.before[i].enabled
          /\ op.before[i].fires = 1
          /\ i \notin Range(op.ready)

\* C20: after the session has been disconnected (Session::stop) the timer
\* pump does nothing: no timer fires and no timer command is sent.
C20_NoTimerAfterStop ==
    (TimerPump /\ op.stopped) =>
        /\ op.ready = <<>>
        /\ op.events = <<>>
        /\ op.writes = <<>>
        /\ timers = op.before

\* a pump after the stop, at a later instant, over an enabled repeating
\* timer that had fired before the stop
C20_Witness ==
    /\ TimerPump /\ op.stopped
    /\ \E i \in 1..Len(op.before) :
          /\ op.before[i].timer_type = "Repeating"
          /\ op.before[i].enabled
          /\ op.before[i].fires >= 1
          /\ now > op.before[i].interval

\* ======================================================= session lock claims
InPipeline(t) == pc[t] \in {"pump", "pump_write", "timers", "send"}

\* C1: at every instant at most one of the inbound pump, the timer pump and
\* an outbound submission is inside its pipeline, and the one that is
\* inside holds the session lock.
C1_OneInsideAtATime ==
    /\ Cardinality({ t \in UiTasks \cup {RX} : InPipeline(t) }) <= 1
    /\ \A t \in UiTasks \cup {RX} : InPipeline(t) => session_lock = t

\* the pump is inside while a submission waits for the session
C1_Witness ==
    /\ pc[RX] = "pump"
    /\ \E t \in UiTasks : pc[t] = "send_wait"

\* C21: a disconnect requested while a transport read is in flight does not
\* wait for that read: it can take the session and complete at once, without
\* the read ending by its timeout or by data arriving.
C21_DisconnectEndsRead ==
    \A t \in UiTasks :
        (pc[t] = "disconnect_wait" /\ pc[RX] = "pump")
            => ENABLED UiDisconnectLock(t)

\* ========================================================= event bus claims
\* the receiver has been given, so far, exactly the first events published
\* after it subscribed
Contiguous(r) == \A k \in 1..Len(r.got) : r.got[k] = r.at + k

\* C22 as stated: every subscriber receives all the events published after
\* it subscribed, in publish order, and none published before.
C22_ReceivesAllInOrder ==
    \A i \in 1..Len(receivers) : Contiguous(receivers[i])

\* C22 amended: every subscriber receives, in publish order and whatever the
\* other subscribers do, events published after it subscribed and none
\* published before; it misses none of them unless it fell more than the
\* buffer size behind, and then every event it missed is counted in a lag
\* report.
C22_ReceivesAllButLagged ==
    \A i \in 1..Len(receivers) :
        LET r == receivers[i]
        IN  /\ \A k \in 1..Len(r.got) :
                  /\ r.got[k] > r.at
                  /\ r.got[k] <= Len(published)
            /\ \A k \in 1..(Len(r.got) - 1) : r.got[k] < r.got[k + 1]
            /\ r.lost = 0 => Contiguous(r)
            /\ r.got # <<>> => Last(r.got) - r.at - Len(r.got) <= r.lost

\* one subscriber, late, has kept up and received every event since it
\* subscribed; the other fell behind, was told so and went on receiving
C22_Witness ==
    \E i, j \in 1..Len(receivers) :
        /\ receivers[i].lost > 0
        /\ receivers[i].got # <<>>
        /\ receivers[j].at > 0
        /\ receivers[j].lost = 0
        /\ Len(receivers[j].got) >= 2

\* C23: publish never blocks and never fails: it can always be called and
\* returns Ok, with no subscriber, with dropped subscribers and with a
\* subscriber more than the buffer size behind; such a subscriber loses its
\* oldest events: it is told how many and goes on with the oldest retained.
C23_PublishNeverBlocksNorFails ==
    /\ (op = NoOp /\ Len(published) < MaxPublished) => ENABLED BusPublish
    /\ op.call = "EventBus::publish" => op.ok
    /\ (op.call = "Receiver::recv" /\ op.res = "Lagged") =>
          /\ op.tail - op.before.next > BufferSize
          /\ op.v = (op.tail - BufferSize) - op.before.next
          /\ receivers[op.rx].next = op.tail - BufferSize
          /\ receivers[op.rx].got = op.before.got

\* publish has returned Ok while one subscriber is dropped and the other is
\* more than the buffer size behind
C23_Witness ==
    /\ op.call = "EventBus::publish" /\ op.ok
    /\ \E i, j \in 1..Len(receivers) :
        /\ ~receivers[i].alive
        /\ receivers[j].alive
        /\ bus.tail - receivers[j].next > BufferSize

\* ============================================================ pattern claims
\* C24: a pattern error is raised only when a rule is created or edited;
\* matching a line against the rules the session holds, however they were
\* loaded, never fails because of a pattern.
C24_NoPatternErrorAtMatchTime ==
    op.call = "TriggerManager::find_matches" => op.ok

\* the rules of the list whose current pattern matches the text
ByPattern(list, text) ==
    SelectSeq(list, LAMBDA t : t.enabled /\ regex_captures(t.pattern, text).some)

\* C25: the cached matcher of a rule is always the one compiled from the
\* rule's current pattern, and after an edit of the pattern the next match
\* is decided by the new pattern.
C25_MatcherFollowsPattern ==
    /\ \A i \in 1..Len(triggers) :
          triggers[i].regex.some => triggers[i].regex.v = triggers[i].pattern
    /\ (op.call = "TriggerManager::find_matches" /\ op.ok) =>
          op.ids = [k \in 1..Len(ByPattern(op.before, op.text)) |->
                        ByPattern(op.before, op.text)[k].id]

\* a rule that had a matcher for a pattern matching the line was edited to
\* a pattern that does not match it, and the line was matched again
C25_Witness ==
    /\ op.call = "TriggerManager::find_matches" /\ op.ok
    /\ \E i \in 1..Len(op.before) :
          /\ op.before[i].was.some
          /\ regex_captures(op.before[i].was.v, op.text).some
          /\ ~regex_captures(op.before[i].pattern, op.text).some
          /\ triggers[i].regex = Some(triggers[i].pattern)

\* ==================================================== command history claims
\* what one submission may do to the history: nothing for a blank input or
\* one equal to the newest entry, otherwise the input is appended as it was
\* typed (the oldest entry leaves a full history)
Recorded(commands, input, after) ==
    IF IsBlank(input) \/ (commands # <<>> /\ Last(commands) = input)
    THEN after = commands
    ELSE \/ after = Append(commands, input)
         \/ Len(commands) = MaxHistory /\ after = Append(Tail(commands), input)

\* C26: each send_command call records the raw input at most once, verbatim;
\* blank input and input equal to the previous entry are not recorded, and
\* nothing that speedwalk expansion, aliases or scripts produce is added.
C26_RawInputRecordedOnce ==
    [][(op = NoOp /\ op'.call = "Session::send_command")
          => Recorded(history, op'.input, history')]_vars

\* "2n" was submitted, went out as two "north", and the history holds the
\* "2n" and no "north"
C26_Witness ==
    /\ Submission
    /\ op.input = T_2n
    /\ Len(op.steps) = 2
    /\ \A i \in 1..Len(op.steps) : op.steps[i].text = T_north
    /\ Last(history) = T_2n
    /\ \A i \in 1..Len(history) : history[i] # T_north

\* how far from the prompt the moves lead in a history of n commands: 0 is
\* the prompt, k the k-th newest command; up stops at the oldest
RECURSIVE Depth(_, _)
Depth(ms, n) ==
    IF ms = <<>> THEN 0
    ELSE IF Last(ms).call = "CommandHistory::get_previous"
    THEN IF Depth(SubSeq(ms, 1, Len(ms) - 1), n) < n
         THEN Depth(SubSeq(ms, 1, Len(ms) - 1), n) + 1 ELSE n
    ELSE IF Depth(SubSeq(ms, 1, Len(ms) - 1), n) > 0
         THEN Depth(SubSeq(ms, 1, Len(ms) - 1), n) - 1 ELSE 0

\* the command the moves lead to
Shown(ms, commands) ==
    IF Depth(ms, Len(commands)) = 0 THEN None
    ELSE Some(commands[Len(commands) - Depth(ms, Len(commands)) + 1])

WalkToken(map, token) ==
    \/ \E k \in DOMAIN map : map[k] = token
    \/ token \in DOMAIN map
    \/ \E n \in 1..(Len(token) - 1) :
          /\ \A i \in 1..n : is_ascii_digit(token[i])
          /\ parse_usize(SubSeq(token, 1, n), 0) \in 1..1000
          /\ SubSeq(token, n + 1, Len(token)) \in DOMAIN map

\* the commands one accepted token stands for
Walked(map, token) ==
    IF \E k \in DOMAIN map : map[k] = token THEN <<token>>
    ELSE IF token \in DOMAIN map THEN <<map[token]>>
    ELSE LET n == CHOOSE n \in 1..(Len(token) - 1) :
                      SubSeq(token, n + 1, Len(token)) \in DOMAIN map
         IN  [i \in 1..parse_usize(SubSeq(token, 1, n), 0) |->
                 map[SubSeq(token, n + 1, Len(token))]]

\* the input is a walk: speedwalk is enabled and every token is accepted
IsWalk(config, input) ==
    LET tokens == split_whitespace(input, <<>>, <<>>)
    IN  /\ config.enabled
        /\ tokens # <<>>
        /\ \A i \in 1..Len(tokens) : WalkToken(config.direction_map, tokens[i])

\* the commands a walk stands for, token by token
WalkOf(config, input) ==
    LET tokens == split_whitespace(input, <<>>, <<>>)
    IN  Concat([i \in 1..Len(tokens) |-> Walked(config.direction_map, tokens[i])])

\* C28: speedwalk expansion is all-or-nothing: a walk (speedwalk enabled,
\* every token a full name, a short form or a count from 1 to 1000 with a
\* short form) enters the pipeline as its expanded commands, in order, up to
\* the first one that fails; every other input (a count of 0, a count above
\* 1000, an unparseable token, speedwalk disabled) enters it verbatim as one
\* literal command
C28_AllOrNothing ==
    op.call = "Session::send_command" =>
        IF IsWalk(speedwalk, op.input)
        THEN /\ \A i \in 1..Len(op.steps) : op.steps[i].origin = "speedwalk"
             /\ Len(op.steps) <= Len(WalkOf(speedwalk, op.input))
             /\ \A i \in 1..Len(op.steps) :
                   op.steps[i].text = WalkOf(speedwalk, op.input)[i]
             /\ op.ok => Len(op.steps) = Len(WalkOf(speedwalk, op.input))
        ELSE /\ op.steps = <<[text |-> op.input, origin |-> "typed"]>>
             /\ Len(op.writes) <= 1

\* a line whose first token is a walk and whose second is not was sent as it
\* was typed
C28_Witness ==
    /\ op.call = "Session::send_command"
    /\ op.input = <<"2", "n", " ", "l", "o", "o", "k">>
    /\ speedwalk.enabled
    /\ op.ok
    /\ Len(op.steps) = 1

\* ======================================================= placeholder claims
\* the command with every %0 .. %9 that has a capture replaced by it, read
\* from left to right
RECURSIVE Substituted(_, _)
Substituted(text, captures) ==
    IF text = <<>> THEN <<>>
    ELSE IF /\ Len(text) >= 2
            /\ text[1] = "%"
            /\ is_ascii_digit(text[2])
            /\ IndexOf(Digits, text[2]) <= Len(captures)
    THEN captures[IndexOf(Digits, text[2])]
         \o Substituted(SubSeq(text, 3, Len(text)), captures)
    ELSE <<Head(text)>> \o Substituted(Tail(text), captures)

\* the commands an action emits for a match, depth first, left to right
RECURSIVE Emitted(_, _)
Emitted(action, captures) ==
    CASE action.kind = "SendCommand" -> <<Substituted(action.cmd, captures)>>
      [] action.kind = "SendCommands" ->
            [i \in 1..Len(action.cmds) |-> Substituted(action.cmds[i], captures)]
      [] action.kind = "Sequence" ->
            Concat([i \in 1..Len(action.actions) |->
                        Emitted(action.actions[i], captures)])
      [] OTHER -> <<>>

\* the rule of the list with this id
RuleOf(list, id) == list[CHOOSE i \in 1..Len(list) : list[i].id = id]

\* the commands of the published executions of one kind are those the
\* rule's action emits for the captures of the matched text
EmitsSubstituted(kind, list) ==
    \A j \in 1..Len(op.events) :
        op.events[j].e = kind =>
            op.events[j].commands =
                Emitted(RuleOf(list, op.events[j].alias).action,
                        regex_captures(RuleOf(list, op.events[j].alias).pattern,
                                       op.events[j].text).v)

\* C29: for aliases and for triggers, the commands an executed action emits
\* have each placeholder %0 .. %9 replaced by the corresponding capture of the
\* match, and a placeholder without a capture left as it is
C29_PlaceholdersSubstituted ==
    /\ op.call = "Session::send_command" =>
           EmitsSubstituted("AliasExecuted", aliases)
    /\ op.call = "Session::process_incoming_data" =>
           EmitsSubstituted("TriggerExecuted", triggers)

\* ============================================================= storm claims
\* C30: script-induced recursion is bounded: whatever the aliases and their
\* scripts, one send_command call ends by itself, without its recursion
\* going past the depth MaxDepth that is followed here
C30_RecursionBounded ==
    op.call = "Session::send_command" => ~op.over

\* ====================================================== script queue claims
\* a call that runs the outbound pipeline
PipelineCall ==
    op.call \in {"Session::send_command", "Session::process_incoming_data",
                 "Session::process_timers"}

\* C31: a command queued by a script is resubmitted as part of the rule or
\* timer whose script queued it, or never sent: no call resubmits a command
\* that the script of an earlier call left in the queue, and no call leaves
\* a command in the queue when it returns
C31_NoCommandLeftForLater ==
    (PipelineCall /\ "steps" \in DOMAIN op) =>
        /\ \A i \in 1..Len(op.steps) : op.steps[i].origin # "earlier"
        /\ "left" \in DOMAIN op => op.left = <<>>

\* ========================================================== receiver claims
\* C32: no chunk is lost or left half-processed because the 100 ms timeout
\* of the receiver loop expired: the timeout never ends a pump that has
\* read a chunk and not yet finished with it
C32_TimeoutCutsNoChunk ==
    cut = "none"

\* no command task is between storing a session and starting its receiver
NoStartPending == \A t \in UiTasks : pc[t] # "connect_spawn"

\* C33: a connected session always has exactly one receiver loop serving it:
\* once connect_to_world has returned, a loop is running that has looked or
\* will look at the session just stored, no second loop has been spawned
\* beside a running one, and the flag says a loop is running
C33_OneLoopServes ==
    /\ (slot = "Connected" /\ unserved /\ NoStartPending)
           => pc[RX] \notin {"stop", "stopped"}
    /\ ~twin
    /\ (pc[RX] \notin {"stop", "stopped"} /\ NoStartPending) => receiver_running

\* C34: a submission that waits for the session is eventually serviced,
\* whether or not data arrives: the receiver loop gives the session up
\* between iterations and cannot hold it for ever
C34_WaitingSendServed ==
    \A t \in UiTasks : (pc[t] = "send_wait") ~> (pc[t] # "send_wait")

\* a submission is inside the session while the receiver loop, still
\* running, waits for it
C34_Witness ==
    \E t \in UiTasks :
        /\ pc[t] = "send"
        /\ session_lock = t
        /\ pc[RX] = "pump_wait"
        /\ receiver_running

\* the call that just started published the connection-status event e
Publishes(e) ==
    /\ op = NoOp
    /\ op' # NoOp
    /\ "events" \in DOMAIN op'
    /\ \E i \in 1..Len(op'.events) : op'.events[i] = e

\* C35: Connected and Disconnected alternate, starting with Connected.  The
\* stream exists exactly when the last status event was Connected (and does
\* not exist before the first), so: Connected is published only by a call
\* that found no stream, Disconnected only by a call that found one
C35_StatusAlternates ==
    [][/\ Publishes("Connected") => ~stream
       /\ Publishes("Disconnected") => stream]_vars

\* C36: a capture set lives for one match only: once the call that matched
\* has returned, the capture variables installed for its script are gone
\* from the scripting variables, so no later script can read them
C36_CapturesDiscarded == variables = {}

\* C37: the navigation position of the command history is unset or an index
\* of a stored command, and no call on the history panics
C37_PositionValid ==
    /\ current_position.some => current_position.v < Len(history)
    /\ "panicked" \notin DOMAIN op

\* the id of the alias that find_match returns for text, "" when none
Winner(list, text) ==
    IF find_match(list, text) = 0 THEN "" ELSE list[find_match(list, text)].id

\* C38: update_alias keeps the alias's place in the first-match order: an
\* update that leaves patterns and enabled flags as they are leaves the
\* winner of every input as it is
C38_UpdateKeepsOrder ==
    [][(op'.call = "Session::update_alias")
          => \A text \in Inputs : Winner(aliases', text) = Winner(aliases, text)]_vars

\* the aliases other than the one with this id, in their order
Others(list, id) == SelectSeq(list, LAMBDA a : a.id # id)

\* C38 as amended: update_alias keeps the order of the other aliases and
\* puts the updated alias last: for every input the winner after the update
\* is the first match among the other aliases, and the winner of before
\* only when none of them matches
C38_UpdateMovesLast ==
    [][(op'.call = "Session::update_alias")
          => \A text \in Inputs :
                Winner(aliases', text) =
                    IF Winner(Others(aliases, op'.id), text) # ""
                    THEN Winner(Others(aliases, op'.id), text)
                    ELSE Winner(aliases, text)]_vars

\* the updated alias stands behind another alias that matches the same
\* input and now wins
C38_Witness ==
    /\ op.call = "Session::update_alias"
    /\ \E text \in Inputs :
        /\ Winner(aliases, text) \notin {"", op.id}
        /\ \E i \in 1..Len(aliases) :
            /\ aliases[i].id = op.id
            /\ aliases[i].enabled
            /\ matches(aliases[i], text)

\* the script nodes of an action tree, depth first and left to right
RECURSIVE script_nodes(_)
RECURSIVE script_nodes_from(_, _)
script_nodes_from(actions, i) ==
    IF i > Len(actions) THEN <<>>
    ELSE script_nodes(actions[i]) \o script_nodes_from(actions, i + 1)

script_nodes(action) ==
    CASE action.kind = "ExecuteScript" -> <<action.script>>
      [] action.kind = "Sequence" -> script_nodes_from(action.actions, 1)
      [] OTHER -> <<>>

\* what the scripts pass to world.Send when they run one after the other
RECURSIVE sends_of(_)
sends_of(scripts) ==
    IF scripts = <<>> THEN <<>> ELSE Head(scripts).sends \o sends_of(Tail(scripts))

\* C39: when an alias fires, every script node of its action tree is run,
\* depth first and left to right: what the scripts queued during the call
\* is what all the script nodes queue, in that order
C39_EveryScriptRuns ==
    (op.call = "Session::send_command" /\ find_match(aliases, op.input) # 0)
        => [i \in 1..Len(op.pushed) |-> op.pushed[i].cmd]
              = sends_of(script_nodes(aliases[find_match(aliases, op.input)].action))

\* the forwarders that have emitted the event of the n-th publish call
EmittedBy(n) ==
    { i \in 1..Len(receivers) :
        \E k \in 1..Len(receivers[i].got) : receivers[i].got[k] = n }

\* C40: there is never more than one event forwarder subscribed to the bus,
\* and each published event is emitted to the frontend at most once
C40_OneForwarder ==
    /\ subscriber_count(receivers) <= 1
    /\ \A n \in 1..Len(published) : Cardinality(EmittedBy(n)) <= 1

====
